---- MODULE Spec2Model ----
(***************************************************************************)
(* A model of the Rubik's cube facelet state and move engine               *)
(* (class RubiksCube): the 54 stickers, the quarter turns built from       *)
(* _rotateFace and _shiftEdges, manualRotate with its history, scramble    *)
(* and isSolved.                                                           *)
(***************************************************************************)
EXTENDS Integers, Sequences, FiniteSets, TLC

\* ------------------------------------------------------------------ bounds
\* Calls of manualRotate (direct, or made by scramble) in the free phase.
MaxOps == 2
\* Largest numMoves handed to scramble.
MaxScramble == 2
\* A scripted scenario may start after at most this many free calls.
MaxPrefix == 2
\* Repetitions of the commutator that the commutator scenario runs.
MaxReps == 6
\* Random moves made by the scramble button, in place of the 25 of the page.
MaxScrambleClick == 3

\* ------------------------------------------------------------ facelet state
\* The keys of this.state, in insertion order F, R, U, B, L, D.
FaceKeys == <<"F", "R", "U", "B", "L", "D">>

Faces == {FaceKeys[i] : i \in DOMAIN FaceKeys}

\* this.colors
colors == [F |-> "r", R |-> "g", U |-> "y", B |-> "o", L |-> "b", D |-> "w"]

Colors == {colors[f] : f \in Faces}

\* this.state after the constructor: every face filled with its colour.
SolvedState == [f \in Faces |-> [i \in 0..8 |-> colors[f]]]

\* The 12 symbols manualRotate accepts (the moves array of scramble).
Moves == {"U", "U_PRIME", "D", "D_PRIME", "L", "L_PRIME",
          "R", "R_PRIME", "F", "F_PRIME", "B", "B_PRIME"}

\* Symbols outside the 12, as a caller may pass them.
BadSymbols == {"U2", "M"}

\* ------------------------------------------------------------- move engine
\* The one element of a one-element set.  Only({e : x \in {v}}) is e with x
\* bound to the value of v, which is computed once however often e uses x.
Only(S) == CHOOSE x \in S : TRUE

\* RotateSource with a mistyped source index: newFace[2] = face[6].
RotateSourceTypo(clockwise) ==
    IF clockwise
    THEN (0 :> 6) @@ (1 :> 3) @@ (2 :> 6) @@ (3 :> 7) @@ (4 :> 4)
         @@ (5 :> 1) @@ (6 :> 8) @@ (7 :> 5) @@ (8 :> 2)
    ELSE (0 :> 2) @@ (1 :> 5) @@ (2 :> 8) @@ (3 :> 1) @@ (4 :> 4)
         @@ (5 :> 7) @@ (6 :> 0) @@ (7 :> 3) @@ (8 :> 6)

\* RotateSource whose counter-clockwise branch repeats the clockwise one.
RotateSourceOneWay(clockwise) ==
    (0 :> 6) @@ (1 :> 3) @@ (2 :> 0) @@ (3 :> 7) @@ (4 :> 4)
    @@ (5 :> 1) @@ (6 :> 8) @@ (7 :> 5) @@ (8 :> 2)

\* The source index of each sticker of the rotated face: newFace[i] = face[..].
RotateSource(clockwise) ==
    IF clockwise
    THEN (0 :> 6) @@ (1 :> 3) @@ (2 :> 0) @@ (3 :> 7) @@ (4 :> 4)
         @@ (5 :> 1) @@ (6 :> 8) @@ (7 :> 5) @@ (8 :> 2)
    ELSE (0 :> 2) @@ (1 :> 5) @@ (2 :> 8) @@ (3 :> 1) @@ (4 :> 4)
         @@ (5 :> 7) @@ (6 :> 0) @@ (7 :> 3) @@ (8 :> 6)

_rotateFace(s, faceKey, clockwise) ==
    LET face == s[faceKey]
        from == RotateSource(clockwise)
        newFace == (0 :> face[from[0]]) @@ (1 :> face[from[1]]) @@ (2 :> face[from[2]])
                   @@ (3 :> face[from[3]]) @@ (4 :> face[from[4]]) @@ (5 :> face[from[5]])
                   @@ (6 :> face[from[6]]) @@ (7 :> face[from[7]]) @@ (8 :> face[from[8]])
    IN  [s EXCEPT ![faceKey] = newFace]

\* The (face, index) places of an edges list, in the order the loops visit them.
RECURSIVE EdgePlaces(_)
EdgePlaces(edges) ==
    IF edges = <<>> THEN <<>>
    ELSE [j \in 1..Len(Head(edges).indices) |->
             [face |-> Head(edges).face, index |-> Head(edges).indices[j]]]
         \o EdgePlaces(Tail(edges))

\* The write-back loop: state[edge.face][index] = temp[tempIndex++]
RECURSIVE WriteBack(_, _, _)
WriteBack(s, places, temp) ==
    IF places = <<>> THEN s
    ELSE WriteBack([s EXCEPT ![Head(places).face][Head(places).index] = Head(temp)],
                   Tail(places), Tail(temp))

\* _shiftEdges whose counter-clockwise branch copies the first section without
\* removing it (slice for splice): the write-back puts every sticker back.
_shiftEdgesSlice(s, edges, clockwise) ==
    LET places == EdgePlaces(edges)
        temp == [k \in 1..Len(places) |-> s[places[k].face][places[k].index]]
        n == Len(temp)
        lastSectionLength == Len(edges[Len(edges)].indices)
        firstSectionLength == Len(edges[1].indices)
        shifted == IF clockwise
                   THEN SubSeq(temp, n - lastSectionLength + 1, n)
                        \o SubSeq(temp, 1, n - lastSectionLength)
                   ELSE temp \o SubSeq(temp, 1, firstSectionLength)
    IN  WriteBack(s, places, shifted)

\* _shiftEdges that moves one sticker too few of the last (first) section.
_shiftEdgesShort(s, edges, clockwise) ==
    LET places == EdgePlaces(edges)
        temp == [k \in 1..Len(places) |-> s[places[k].face][places[k].index]]
        n == Len(temp)
        lastSectionLength == Len(edges[Len(edges)].indices) - 1
        firstSectionLength == Len(edges[1].indices) - 1
        shifted == IF clockwise
                   THEN SubSeq(temp, n - lastSectionLength + 1, n)
                        \o SubSeq(temp, 1, n - lastSectionLength)
                   ELSE SubSeq(temp, firstSectionLength + 1, n)
                        \o SubSeq(temp, 1, firstSectionLength)
    IN  WriteBack(s, places, shifted)

\* _shiftEdges with the two shifts exchanged: the first section goes to the
\* end on a clockwise call, the last section to the front otherwise.
_shiftEdgesExchanged(s, edges, clockwise) ==
    LET places == EdgePlaces(edges)
        temp == [k \in 1..Len(places) |-> s[places[k].face][places[k].index]]
        n == Len(temp)
        lastSectionLength == Len(edges[Len(edges)].indices)
        firstSectionLength == Len(edges[1].indices)
        shifted == IF ~clockwise
                   THEN SubSeq(temp, n - lastSectionLength + 1, n)
                        \o SubSeq(temp, 1, n - lastSectionLength)
                   ELSE SubSeq(temp, firstSectionLength + 1, n)
                        \o SubSeq(temp, 1, firstSectionLength)
    IN  WriteBack(s, places, shifted)

_shiftEdges(theState, edges, clockwise) ==
    Only({Only({Only({WriteBack(s, places, shifted)
        : shifted \in {LET n == Len(temp)
                           lastSectionLength == Len(edges[Len(edges)].indices)
                           firstSectionLength == Len(edges[1].indices)
                       IN  IF clockwise
                           THEN SubSeq(temp, n - lastSectionLength + 1, n)
                                \o SubSeq(temp, 1, n - lastSectionLength)
                           ELSE SubSeq(temp, firstSectionLength + 1, n)
                                \o SubSeq(temp, 1, firstSectionLength)}})
        : temp \in {[k \in 1..Len(places) |-> s[places[k].face][places[k].index]]}})
        : s \in {theState}, places \in {EdgePlaces(edges)}})

\* EdgesOf with the F band of the D turn copied from the U turn.
EdgesOfCopied(faceKey) ==
    CASE faceKey = "U" -> << [face |-> "F", indices |-> <<0, 1, 2>>],
                             [face |-> "R", indices |-> <<0, 1, 2>>],
                             [face |-> "B", indices |-> <<0, 1, 2>>],
                             [face |-> "L", indices |-> <<0, 1, 2>>] >>
      [] faceKey = "D" -> << [face |-> "F", indices |-> <<0, 1, 2>>],
                             [face |-> "L", indices |-> <<6, 7, 8>>],
                             [face |-> "B", indices |-> <<6, 7, 8>>],
                             [face |-> "R", indices |-> <<6, 7, 8>>] >>
      [] faceKey = "L" -> << [face |-> "U", indices |-> <<0, 3, 6>>],
                             [face |-> "F", indices |-> <<0, 3, 6>>],
                             [face |-> "D", indices |-> <<0, 3, 6>>],
                             [face |-> "B", indices |-> <<8, 5, 2>>] >>
      [] faceKey = "R" -> << [face |-> "U", indices |-> <<2, 5, 8>>],
                             [face |-> "B", indices |-> <<6, 3, 0>>],
                             [face |-> "D", indices |-> <<2, 5, 8>>],
                             [face |-> "F", indices |-> <<2, 5, 8>>] >>
      [] faceKey = "F" -> << [face |-> "U", indices |-> <<6, 7, 8>>],
                             [face |-> "R", indices |-> <<0, 3, 6>>],
                             [face |-> "D", indices |-> <<0, 1, 2>>],
                             [face |-> "L", indices |-> <<2, 5, 8>>] >>
      [] faceKey = "B" -> << [face |-> "U", indices |-> <<0, 1, 2>>],
                             [face |-> "L", indices |-> <<0, 3, 6>>],
                             [face |-> "D", indices |-> <<6, 7, 8>>],
                             [face |-> "R", indices |-> <<2, 5, 8>>] >>

\* EdgesOf with the F band of the U turn on the middle row.
EdgesOfMiddleRow(faceKey) ==
    CASE faceKey = "U" -> << [face |-> "F", indices |-> <<3, 4, 5>>],
                             [face |-> "R", indices |-> <<0, 1, 2>>],
                             [face |-> "B", indices |-> <<0, 1, 2>>],
                             [face |-> "L", indices |-> <<0, 1, 2>>] >>
      [] faceKey = "D" -> << [face |-> "F", indices |-> <<6, 7, 8>>],
                             [face |-> "L", indices |-> <<6, 7, 8>>],
                             [face |-> "B", indices |-> <<6, 7, 8>>],
                             [face |-> "R", indices |-> <<6, 7, 8>>] >>
      [] faceKey = "L" -> << [face |-> "U", indices |-> <<0, 3, 6>>],
                             [face |-> "F", indices |-> <<0, 3, 6>>],
                             [face |-> "D", indices |-> <<0, 3, 6>>],
                             [face |-> "B", indices |-> <<8, 5, 2>>] >>
      [] faceKey = "R" -> << [face |-> "U", indices |-> <<2, 5, 8>>],
                             [face |-> "B", indices |-> <<6, 3, 0>>],
                             [face |-> "D", indices |-> <<2, 5, 8>>],
                             [face |-> "F", indices |-> <<2, 5, 8>>] >>
      [] faceKey = "F" -> << [face |-> "U", indices |-> <<6, 7, 8>>],
                             [face |-> "R", indices |-> <<0, 3, 6>>],
                             [face |-> "D", indices |-> <<0, 1, 2>>],
                             [face |-> "L", indices |-> <<2, 5, 8>>] >>
      [] faceKey = "B" -> << [face |-> "U", indices |-> <<0, 1, 2>>],
                             [face |-> "L", indices |-> <<0, 3, 6>>],
                             [face |-> "D", indices |-> <<6, 7, 8>>],
                             [face |-> "R", indices |-> <<2, 5, 8>>] >>

\* EdgesOf with the B band of the R turn not reversed.
EdgesOfUnreversed(faceKey) ==
    CASE faceKey = "U" -> << [face |-> "F", indices |-> <<0, 1, 2>>],
                             [face |-> "R", indices |-> <<0, 1, 2>>],
                             [face |-> "B", indices |-> <<0, 1, 2>>],
                             [face |-> "L", indices |-> <<0, 1, 2>>] >>
      [] faceKey = "D" -> << [face |-> "F", indices |-> <<6, 7, 8>>],
                             [face |-> "L", indices |-> <<6, 7, 8>>],
                             [face |-> "B", indices |-> <<6, 7, 8>>],
                             [face |-> "R", indices |-> <<6, 7, 8>>] >>
      [] faceKey = "L" -> << [face |-> "U", indices |-> <<0, 3, 6>>],
                             [face |-> "F", indices |-> <<0, 3, 6>>],
                             [face |-> "D", indices |-> <<0, 3, 6>>],
                             [face |-> "B", indices |-> <<8, 5, 2>>] >>
      [] faceKey = "R" -> << [face |-> "U", indices |-> <<2, 5, 8>>],
                             [face |-> "B", indices |-> <<0, 3, 6>>],
                             [face |-> "D", indices |-> <<2, 5, 8>>],
                             [face |-> "F", indices |-> <<2, 5, 8>>] >>
      [] faceKey = "F" -> << [face |-> "U", indices |-> <<6, 7, 8>>],
                             [face |-> "R", indices |-> <<0, 3, 6>>],
                             [face |-> "D", indices |-> <<0, 1, 2>>],
                             [face |-> "L", indices |-> <<2, 5, 8>>] >>
      [] faceKey = "B" -> << [face |-> "U", indices |-> <<0, 1, 2>>],
                             [face |-> "L", indices |-> <<0, 3, 6>>],
                             [face |-> "D", indices |-> <<6, 7, 8>>],
                             [face |-> "R", indices |-> <<2, 5, 8>>] >>

\* EdgesOf with the F band of the R turn on the middle column.
EdgesOfInnerColumn(faceKey) ==
    CASE faceKey = "U" -> << [face |-> "F", indices |-> <<0, 1, 2>>],
                             [face |-> "R", indices |-> <<0, 1, 2>>],
                             [face |-> "B", indices |-> <<0, 1, 2>>],
                             [face |-> "L", indices |-> <<0, 1, 2>>] >>
      [] faceKey = "D" -> << [face |-> "F", indices |-> <<6, 7, 8>>],
                             [face |-> "L", indices |-> <<6, 7, 8>>],
                             [face |-> "B", indices |-> <<6, 7, 8>>],
                             [face |-> "R", indices |-> <<6, 7, 8>>] >>
      [] faceKey = "L" -> << [face |-> "U", indices |-> <<0, 3, 6>>],
                             [face |-> "F", indices |-> <<0, 3, 6>>],
                             [face |-> "D", indices |-> <<0, 3, 6>>],
                             [face |-> "B", indices |-> <<8, 5, 2>>] >>
      [] faceKey = "R" -> << [face |-> "U", indices |-> <<2, 5, 8>>],
                             [face |-> "B", indices |-> <<6, 3, 0>>],
                             [face |-> "D", indices |-> <<2, 5, 8>>],
                             [face |-> "F", indices |-> <<1, 4, 7>>] >>
      [] faceKey = "F" -> << [face |-> "U", indices |-> <<6, 7, 8>>],
                             [face |-> "R", indices |-> <<0, 3, 6>>],
                             [face |-> "D", indices |-> <<0, 1, 2>>],
                             [face |-> "L", indices |-> <<2, 5, 8>>] >>
      [] faceKey = "B" -> << [face |-> "U", indices |-> <<0, 1, 2>>],
                             [face |-> "L", indices |-> <<0, 3, 6>>],
                             [face |-> "D", indices |-> <<6, 7, 8>>],
                             [face |-> "R", indices |-> <<2, 5, 8>>] >>

\* The edges list of each face's turn.
EdgesOf(faceKey) ==
    CASE faceKey = "U" -> << [face |-> "F", indices |-> <<0, 1, 2>>],
                             [face |-> "R", indices |-> <<0, 1, 2>>],
                             [face |-> "B", indices |-> <<0, 1, 2>>],
                             [face |-> "L", indices |-> <<0, 1, 2>>] >>
      [] faceKey = "D" -> << [face |-> "F", indices |-> <<6, 7, 8>>],
                             [face |-> "L", indices |-> <<6, 7, 8>>],
                             [face |-> "B", indices |-> <<6, 7, 8>>],
                             [face |-> "R", indices |-> <<6, 7, 8>>] >>
      [] faceKey = "L" -> << [face |-> "U", indices |-> <<0, 3, 6>>],
                             [face |-> "F", indices |-> <<0, 3, 6>>],
                             [face |-> "D", indices |-> <<0, 3, 6>>],
                             [face |-> "B", indices |-> <<8, 5, 2>>] >>
      [] faceKey = "R" -> << [face |-> "U", indices |-> <<2, 5, 8>>],
                             [face |-> "B", indices |-> <<6, 3, 0>>],
                             [face |-> "D", indices |-> <<2, 5, 8>>],
                             [face |-> "F", indices |-> <<2, 5, 8>>] >>
      [] faceKey = "F" -> << [face |-> "U", indices |-> <<6, 7, 8>>],
                             [face |-> "R", indices |-> <<0, 3, 6>>],
                             [face |-> "D", indices |-> <<0, 1, 2>>],
                             [face |-> "L", indices |-> <<2, 5, 8>>] >>
      [] faceKey = "B" -> << [face |-> "U", indices |-> <<0, 1, 2>>],
                             [face |-> "L", indices |-> <<0, 3, 6>>],
                             [face |-> "D", indices |-> <<6, 7, 8>>],
                             [face |-> "R", indices |-> <<2, 5, 8>>] >>

_U(s, clockwise) == _shiftEdges(_rotateFace(s, "U", clockwise), EdgesOf("U"), clockwise)

_D(s, clockwise) == _shiftEdges(_rotateFace(s, "D", clockwise), EdgesOf("D"), clockwise)

_L(s, clockwise) == _shiftEdges(_rotateFace(s, "L", clockwise), EdgesOf("L"), clockwise)

_R(s, clockwise) == _shiftEdges(_rotateFace(s, "R", clockwise), EdgesOf("R"), clockwise)

_F(s, clockwise) == _shiftEdges(_rotateFace(s, "F", clockwise), EdgesOf("F"), clockwise)

_B(s, clockwise) == _shiftEdges(_rotateFace(s, "B", clockwise), EdgesOf("B"), clockwise)

\* RotateSwitch that takes the face from the first letter of the symbol, so
\* that "U2" turns U.
RotateSwitchFirstLetter(s, move) ==
    CASE move \in {"U", "U2"} -> _U(s, TRUE)
      [] move = "U_PRIME" -> _U(s, FALSE)
      [] move = "D" -> _D(s, TRUE)
      [] move = "D_PRIME" -> _D(s, FALSE)
      [] move = "L" -> _L(s, TRUE)
      [] move = "L_PRIME" -> _L(s, FALSE)
      [] move = "R" -> _R(s, TRUE)
      [] move = "R_PRIME" -> _R(s, FALSE)
      [] move = "F" -> _F(s, TRUE)
      [] move = "F_PRIME" -> _F(s, FALSE)
      [] move = "B" -> _B(s, TRUE)
      [] move = "B_PRIME" -> _B(s, FALSE)
      [] OTHER -> s

\* The switch of manualRotate: the stickers after the call.
RotateSwitch(s, move) ==
    CASE move = "U" -> _U(s, TRUE)
      [] move = "U_PRIME" -> _U(s, FALSE)
      [] move = "D" -> _D(s, TRUE)
      [] move = "D_PRIME" -> _D(s, FALSE)
      [] move = "L" -> _L(s, TRUE)
      [] move = "L_PRIME" -> _L(s, FALSE)
      [] move = "R" -> _R(s, TRUE)
      [] move = "R_PRIME" -> _R(s, FALSE)
      [] move = "F" -> _F(s, TRUE)
      [] move = "F_PRIME" -> _F(s, FALSE)
      [] move = "B" -> _B(s, TRUE)
      [] move = "B_PRIME" -> _B(s, FALSE)
      [] OTHER -> s

\* The history after manualRotate(move, record): pushed before the switch.
HistoryPush(h, move, record) == IF record THEN Append(h, move) ELSE h

\* isSolved that returns the verdict of the first face of the loop.
isSolvedFirstFace(s) == \A i \in 0..8 : s[FaceKeys[1]][i] = colors[FaceKeys[1]]

\* isSolved with some() for every().
isSolvedSome(s) == \A f \in Faces : {i \in 0..8 : s[f][i] = colors[f]} # {}

isSolved(s) == \A f \in Faces : \A i \in 0..8 : s[f][i] = colors[f]

\* ------------------------------------------------------------------ callers
\* X + '_PRIME' for a face letter X.
PRIME(faceKey) ==
    CASE faceKey = "U" -> "U_PRIME" [] faceKey = "D" -> "D_PRIME"
      [] faceKey = "L" -> "L_PRIME" [] faceKey = "R" -> "R_PRIME"
      [] faceKey = "F" -> "F_PRIME" [] faceKey = "B" -> "B_PRIME"

\* The face a move symbol turns.
FaceOf(move) == CHOOSE f \in Faces : move \in {f, PRIME(f)}

\* The prime counterpart of a move symbol, and back.
Counterpart(move) == IF move \in Faces THEN PRIME(move) ELSE FaceOf(move)

\* The geometrically opposite face.
Opposite(faceKey) ==
    CASE faceKey = "U" -> "D" [] faceKey = "D" -> "U"
      [] faceKey = "L" -> "R" [] faceKey = "R" -> "L"
      [] faceKey = "F" -> "B" [] faceKey = "B" -> "F"

\* The commutator of the scenario.
Commutator == <<"R", "U", "R_PRIME", "U_PRIME">>

RECURSIVE Repeat(_, _)
Repeat(seq, n) == IF n = 0 THEN <<>> ELSE seq \o Repeat(seq, n - 1)

\* The call sequences of the scenarios: a move and its counterpart, a move four
\* times, a turn of each of two opposite faces, the commutator repeated.
PairScripts == {<<m, Counterpart(m)>> : m \in Moves}

FourScripts == {<<m, m, m, m>> : m \in Moves}

OppositeScripts ==
    {script \in {<<a, b>> : a \in Moves, b \in Moves} :
        FaceOf(script[2]) = Opposite(FaceOf(script[1]))}

\* The stickers after manualRotate has been called with each symbol in turn.
RECURSIVE Replay(_, _)
Replay(s, seq) ==
    IF seq = <<>> THEN s
    ELSE Only({Replay(turned, Tail(seq)) : turned \in {RotateSwitch(s, Head(seq))}})

\* ------------------------------------------------------------ cube object
\* manualRotate(move, record) on a cube object [state, history]; calls lists
\* the (move, record) arguments of the manualRotate calls made so far and
\* before holds the stickers at the start of the latest call.
manualRotate(theCube, move, record) ==
    Only({
        [before |-> cube.state,
         calls |-> Append(cube.calls, <<move, record>>),
         history |-> HistoryPush(cube.history, move, record),
         state |-> RotateSwitch(cube.state, move)]
        : cube \in {theCube}})

\* The for loop of scramble: manualRotate(randomMove, false) for i < numMoves.
RECURSIVE scrambleLoop(_, _, _, _)
scrambleLoop(cube, randomMoves, i, numMoves) ==
    IF i < numMoves
    THEN scrambleLoop(manualRotate(cube, randomMoves[i + 1], FALSE),
                      randomMoves, i + 1, numMoves)
    ELSE cube

\* scramble whose manualRotate calls leave out the record argument (default true).
scrambleRecording(cube, numMoves, randomMoves) ==
    LET RECURSIVE loop(_, _)
        loop(c, i) == IF i < numMoves
                      THEN loop(manualRotate(c, randomMoves[i + 1], TRUE), i + 1)
                      ELSE c
    IN  loop([cube EXCEPT !.history = <<>>], 0)

\* scramble(numMoves), randomMoves being the draws of Math.random.
scramble(cube, numMoves, randomMoves) ==
    scrambleLoop([cube EXCEPT !.history = <<>>], randomMoves, 0, numMoves)

\* ------------------------------------------------------------ piece locator
\* edgePositions, in the order the two for-in loops visit it.
edgePositions ==
    << [face1 |-> "F", index1 |-> 1, face2 |-> "U", index2 |-> 7],
       [face1 |-> "F", index1 |-> 3, face2 |-> "L", index2 |-> 5],
       [face1 |-> "F", index1 |-> 5, face2 |-> "R", index2 |-> 3],
       [face1 |-> "F", index1 |-> 7, face2 |-> "D", index2 |-> 1],
       [face1 |-> "R", index1 |-> 1, face2 |-> "U", index2 |-> 5],
       [face1 |-> "R", index1 |-> 3, face2 |-> "F", index2 |-> 5],
       [face1 |-> "R", index1 |-> 5, face2 |-> "B", index2 |-> 3],
       [face1 |-> "R", index1 |-> 7, face2 |-> "D", index2 |-> 5],
       [face1 |-> "U", index1 |-> 1, face2 |-> "B", index2 |-> 1],
       [face1 |-> "U", index1 |-> 3, face2 |-> "L", index2 |-> 1],
       [face1 |-> "U", index1 |-> 5, face2 |-> "R", index2 |-> 1],
       [face1 |-> "U", index1 |-> 7, face2 |-> "F", index2 |-> 1],
       [face1 |-> "B", index1 |-> 1, face2 |-> "U", index2 |-> 1],
       [face1 |-> "B", index1 |-> 3, face2 |-> "R", index2 |-> 5],
       [face1 |-> "B", index1 |-> 5, face2 |-> "L", index2 |-> 3],
       [face1 |-> "B", index1 |-> 7, face2 |-> "D", index2 |-> 7],
       [face1 |-> "L", index1 |-> 1, face2 |-> "U", index2 |-> 3],
       [face1 |-> "L", index1 |-> 3, face2 |-> "B", index2 |-> 5],
       [face1 |-> "L", index1 |-> 5, face2 |-> "F", index2 |-> 3],
       [face1 |-> "L", index1 |-> 7, face2 |-> "D", index2 |-> 3],
       [face1 |-> "D", index1 |-> 1, face2 |-> "F", index2 |-> 7],
       [face1 |-> "D", index1 |-> 3, face2 |-> "L", index2 |-> 7],
       [face1 |-> "D", index1 |-> 5, face2 |-> "R", index2 |-> 7],
       [face1 |-> "D", index1 |-> 7, face2 |-> "B", index2 |-> 7] >>

\* The null that findEdgePiece returns when no position matches.
Null == [face1 |-> "null", index1 |-> 0, face2 |-> "null", index2 |-> 0]

\* The test of the inner loop: the two stickers are the two colours, either order.
PairMatches(stickerColor, adjacentFaceColor, color1, color2) ==
    \/ (stickerColor = color1 /\ adjacentFaceColor = color2)
    \/ (stickerColor = color2 /\ adjacentFaceColor = color1)

\* PairMatches that accepts the colours in the given order only.
PairMatchesOneOrder(stickerColor, adjacentFaceColor, color1, color2) ==
    stickerColor = color1 /\ adjacentFaceColor = color2

\* The loops of findEdgePiece over a table: the first entry, in the order of
\* the table, whose two stickers pass the test, or null.
FirstMatch(table, theState, color1, color2) ==
    Only({
        LET hits == {k \in 1..Len(table) :
                       PairMatches(s[table[k].face1][table[k].index1],
                                   s[table[k].face2][table[k].index2], color1, color2)}
        IN  IF hits = {} THEN Null
            ELSE table[CHOOSE k \in hits : \A j \in hits : k <= j]
        : s \in {theState}})

\* findEdgePiece whose table has F:3 paired with L index 3.
findEdgePieceTypo(s, color1, color2) ==
    FirstMatch([edgePositions EXCEPT ![2].index2 = 3], s, color1, color2)

\* findEdgePiece whose test accepts the colours in the given order only.
findEdgePieceOneOrder(s, color1, color2) ==
    LET hits == {k \in 1..Len(edgePositions) :
                   PairMatchesOneOrder(s[edgePositions[k].face1][edgePositions[k].index1],
                                       s[edgePositions[k].face2][edgePositions[k].index2],
                                       color1, color2)}
    IN  IF hits = {} THEN Null
        ELSE edgePositions[CHOOSE k \in hits : \A j \in hits : k <= j]

\* findEdgePiece(cube, color1, color2) on the stickers s of the cube.
findEdgePiece(s, color1, color2) == FirstMatch(edgePositions, s, color1, color2)

\* ------------------------------------------------------------------- clone
\* A second cube object next to the original: its stickers, and the faces
\* whose array object it shares with the original (state[face] of both cubes
\* is one array).  turned: a cube of the two has been turned since clone();
\* cloneIntact: no turn of the original has changed a sticker of the clone;
\* origIntact: no turn of the clone has changed a sticker of the original.
NoTwin == [exists |-> FALSE, state |-> SolvedState, shared |-> {},
           turned |-> FALSE, cloneIntact |-> TRUE, origIntact |-> TRUE]

\* clone() that assigns newCube.state[face] = this.state[face]: no array is copied.
cloneShallow(s) ==
    [exists |-> TRUE, state |-> s, shared |-> Faces,
     turned |-> FALSE, cloneIntact |-> TRUE, origIntact |-> TRUE]

\* clone(): newCube.state[face] = [...this.state[face]], a fresh array per face.
clone(s) ==
    [exists |-> TRUE, state |-> [f \in Faces |-> [i \in 0..8 |-> s[f][i]]], shared |-> {},
     turned |-> FALSE, cloneIntact |-> TRUE, origIntact |-> TRUE]

\* The two cubes once the moved cube holds the stickers mine2 and the faces
\* shared2 are still shared: the other cube sees the shared faces as written.
Aliased(theMine2, other, shared2) ==
    Only({
        [mine |-> mine2,
         other |-> IF shared2 = {} THEN other
                   ELSE [f \in Faces |-> IF f \in shared2 THEN mine2[f] ELSE other[f]],
         shared |-> shared2]
        : mine2 \in {theMine2}})

\* What manualRotate(move) on the cube holding stickers mine does to the two
\* cubes: _rotateFace binds a new array to the turned face of the moved cube,
\* _shiftEdges writes into the band arrays in place, so the other cube sees
\* the writes on every face whose array it still shares.
TurnAliased(mine, other, shared, move) ==
    Aliased(RotateSwitch(mine, move), other,
            IF move \in Moves THEN shared \ {FaceOf(move)} ELSE shared)

\* The clone after the original has made the calls manualRotate(moves[i]);
\* r is the pair of cubes after the first of the calls.
RECURSIVE OriginalTurned(_, _, _)
RECURSIVE OriginalTurnedOnce(_, _, _)
OriginalTurnedOnce(theTw, theR, rest) ==
    Only({
        OriginalTurned([tw EXCEPT !.state = r.other, !.shared = r.shared,
                                  !.turned = TRUE,
                                  !.cloneIntact = tw.cloneIntact /\ r.other = tw.state],
                       r.mine, rest)
        : tw \in {theTw}, r \in {theR}})

OriginalTurned(theTw, theS, theMoves) ==
    Only({
        IF moves = <<>> \/ ~tw.exists THEN tw
        ELSE OriginalTurnedOnce(tw, TurnAliased(s, tw.state, tw.shared, Head(moves)),
                                Tail(moves))
        : tw \in {theTw}, s \in {theS}, moves \in {theMoves}})

\* --------------------------------------------------------------- solver
\* toggleButtons that leaves the twelve move buttons enabled.
toggleButtonsSparesMoves(disabled) ==
    [scrambleButton |-> disabled, solveButton |-> disabled, moveButtons |-> FALSE]

\* toggleButtons(disabled): the disabled attribute of the scramble button, of
\* the solve button and of every other button inside .cube-display, which are
\* the twelve move buttons.
toggleButtons(disabled) ==
    [scrambleButton |-> disabled, solveButton |-> disabled, moveButtons |-> disabled]

\* The solve handler before the solve button is clicked.
\* pc is the position reached in solveCube, steps the solution steps appended
\* so far, edge and attempts the loop variables of solveWhiteCross, applied the
\* moves the solve has made, outcome how solveCube ended, nullAt the lookup of
\* the latest attempt that returned null, snapshots the clone of the cube handed
\* to appendSolutionStep with each step, buttons the disabled attribute of the
\* page's buttons, timer whether the delayed callback of a scramble click is due.
Idle == [pc |-> "idle", isSolving |-> FALSE, status |-> "", steps |-> <<>>,
         snapshots |-> <<>>, buttons |-> toggleButtons(FALSE), timer |-> FALSE,
         edge |-> 0, attempts |-> 0, phase |-> 0,
         historyBefore |-> <<>>, applied |-> <<>>,
         outcome |-> "none", nullAt |-> "none"]

\* The status message and the step of each phase after the white cross.
placeholderPhases ==
    (2 :> [status |-> "Phase 2: Solving White Corners...",
           step |-> "Phase 2: Solving White Corners (To be implemented)"])
    @@ (3 :> [status |-> "Phase 3: Solving Middle Layer Edges...",
              step |-> "Phase 3: Solving Middle Layer Edges (To be implemented)"])
    @@ (4 :> [status |-> "Phase 4: Orienting Last Layer Edges (Yellow Cross)...",
              step |-> "Phase 4: Orienting Last Layer Edges (Yellow Cross) (To be implemented)"])
    @@ (5 :> [status |-> "Phase 5: Orienting Last Layer Corners...",
              step |-> "Phase 5: Orienting Last Layer Corners (To be implemented)"])
    @@ (6 :> [status |-> "Phase 6: Permuting Last Layer Corners...",
              step |-> "Phase 6: Permuting Last Layer Corners (To be implemented)"])
    @@ (7 :> [status |-> "Phase 7: Permuting Last Layer Edges...",
              step |-> "Phase 7: Permuting Last Layer Edges (To be implemented)"])

\* The message of the else branch that ends solveCube.
incompleteStatus ==
    "Could not fully solve the cube. (Algorithm incomplete or encountered an unhandled state)"

\* new SolutionStep(description, moves); kind and edge classify the step for
\* the properties: the step's role and the color1 of the target edge it is about.
SolutionStep(description, moves, kind, edge) ==
    [description |-> description, moves |-> moves, kind |-> kind, edge |-> edge]

\* toUpperCase() of a colour letter.
toUpperCase(c) ==
    CASE c = "r" -> "R" [] c = "g" -> "G" [] c = "y" -> "Y"
      [] c = "o" -> "O" [] c = "b" -> "B" [] c = "w" -> "W"

whiteColor == colors["D"]

targetEdges ==
    << [color1 |-> colors["F"], color2 |-> whiteColor,
        targetFace |-> "F", targetIndex |-> 7, targetDFaceIndex |-> 1],
       [color1 |-> colors["R"], color2 |-> whiteColor,
        targetFace |-> "R", targetIndex |-> 7, targetDFaceIndex |-> 5],
       [color1 |-> colors["B"], color2 |-> whiteColor,
        targetFace |-> "B", targetIndex |-> 7, targetDFaceIndex |-> 7],
       [color1 |-> colors["L"], color2 |-> whiteColor,
        targetFace |-> "L", targetIndex |-> 7, targetDFaceIndex |-> 3] >>

maxAttempts == 20

\* ['F','R','B','L']
SideFaces == {"F", "R", "B", "L"}

\* The name of the target edge in the step descriptions, as in "R-W".
EdgeName(targetEdge) ==
    toUpperCase(targetEdge.color1) \o "-" \o toUpperCase(targetEdge.color2)

\* The cube object as a loop leaves it: its four fields, each read once.
Settled(theCube) ==
    Only({
        [before |-> cube.before, calls |-> cube.calls,
         history |-> cube.history, state |-> cube.state]
        : cube \in {theCube}})

\* The same calls with record = false.
RECURSIVE applyMovesUnrecorded(_, _)
applyMovesUnrecorded(cube, moves) ==
    IF moves = <<>> THEN cube
    ELSE applyMovesUnrecorded(manualRotate(cube, Head(moves), FALSE), Tail(moves))

\* cube.manualRotate(m, true); moves.push(m) for each m of a list.
RECURSIVE applyMoves(_, _)
applyMoves(cube, moves) ==
    IF moves = <<>> THEN cube
    ELSE applyMoves(manualRotate(cube, Head(moves), TRUE), Tail(moves))

\* The moves list of an attempt: the symbols of the calls the cube has taken.
MovesOf(theCube) ==
    Only({ [i \in 1..Len(cube.calls) |-> cube.calls[i][1]]
        : cube \in {theCube}})

\* The seated test with the two colours of the target edge exchanged on D.
correctlyPlacedSwapped(s, targetEdge) ==
    /\ s[targetEdge.targetFace][targetEdge.targetIndex] = targetEdge.color1
    /\ s["D"][targetEdge.targetDFaceIndex] = targetEdge.color1

\* The test at the head of the while loop: the target edge is seated.
correctlyPlaced(s, targetEdge) ==
    /\ s[targetEdge.targetFace][targetEdge.targetIndex] = targetEdge.color1
    /\ s["D"][targetEdge.targetDFaceIndex] = targetEdge.color2

\* Case 1 of an attempt: the piece is in the Down layer.
DownLayerCase(cube, targetEdge, theCurrentEdgePos) ==
    Only({
        IF currentEdgePos.face1 = "D" \/ currentEdgePos.face2 = "D"
        THEN LET adjacentFaceKey == IF currentEdgePos.face1 = "D"
                                    THEN currentEdgePos.face2 ELSE currentEdgePos.face1
                 adjacentIndex == IF currentEdgePos.face1 = "D"
                                  THEN currentEdgePos.index2 ELSE currentEdgePos.index1
                 dFaceIndex == IF currentEdgePos.face1 = "D"
                               THEN currentEdgePos.index1 ELSE currentEdgePos.index2
             IN  IF /\ adjacentFaceKey = targetEdge.targetFace
                    /\ cube.state[adjacentFaceKey][adjacentIndex] = targetEdge.color2
                    /\ cube.state["D"][dFaceIndex] = targetEdge.color1
                 THEN [cube |-> applyMoves(cube, <<adjacentFaceKey, "U", PRIME(adjacentFaceKey)>>),
                       description |-> "Flipping " \o adjacentFaceKey \o " edge in D layer."]
                 ELSE IF \/ adjacentFaceKey # targetEdge.targetFace
                         \/ cube.state[adjacentFaceKey][adjacentIndex] # targetEdge.color1
                 THEN [cube |-> applyMoves(cube, <<adjacentFaceKey, adjacentFaceKey>>),
                       description |-> "Moving " \o adjacentFaceKey
                                       \o " edge from D layer to U layer."]
                 ELSE [cube |-> cube, description |-> ""]
        ELSE [cube |-> cube, description |-> ""]
        : currentEdgePos \in {theCurrentEdgePos}})

\* The U-alignment loop of the white-on-U branch; thrown when the lookup inside
\* returns null and currentEdgePos.face1 is read from it.  WhiteOnUTurned is
\* the body of the loop after cube.manualRotate('U') and the lookup.
RECURSIVE WhiteOnULoop(_, _, _, _)
RECURSIVE WhiteOnUTurned(_, _, _, _, _)
WhiteOnUTurned(theTurned, targetEdge, currentFaceWithColor1, rotations, theCurrentEdgePos) ==
    Only({
            IF currentEdgePos = Null
            THEN [cube |-> Settled(turned), face |-> currentFaceWithColor1, thrown |-> TRUE]
            ELSE WhiteOnULoop(turned, targetEdge,
                              IF turned.state[currentEdgePos.face1][currentEdgePos.index1] = whiteColor
                              THEN currentEdgePos.face2 ELSE currentEdgePos.face1,
                              rotations + 1)
        : turned \in {theTurned}, currentEdgePos \in {theCurrentEdgePos}})

WhiteOnULoop(theCube, targetEdge, currentFaceWithColor1, rotations) ==
    Only({
        IF currentFaceWithColor1 # targetEdge.targetFace /\ rotations < 4
        THEN WhiteOnUTurned(manualRotate(cube, "U", TRUE), targetEdge,
                            currentFaceWithColor1, rotations,
                            findEdgePiece(RotateSwitch(cube.state, "U"),
                                          targetEdge.color1, targetEdge.color2))
        ELSE [cube |-> Settled(cube), face |-> currentFaceWithColor1, thrown |-> FALSE]
        : cube \in {theCube}})

\* The U-alignment loop of the white-on-side branch.
RECURSIVE WhiteOnSideLoop(_, _, _, _)
RECURSIVE WhiteOnSideTurned(_, _, _, _, _)
WhiteOnSideTurned(theTurned, targetEdge, currentFaceWithWhite, rotations, theCurrentEdgePos) ==
    Only({
            IF currentEdgePos = Null
            THEN [cube |-> Settled(turned), face |-> currentFaceWithWhite, thrown |-> TRUE]
            ELSE WhiteOnSideLoop(turned, targetEdge,
                                 IF turned.state[currentEdgePos.face1][currentEdgePos.index1] = whiteColor
                                 THEN currentEdgePos.face1 ELSE currentEdgePos.face2,
                                 rotations + 1)
        : turned \in {theTurned}, currentEdgePos \in {theCurrentEdgePos}})

WhiteOnSideLoop(theCube, targetEdge, currentFaceWithWhite, rotations) ==
    Only({
        IF currentFaceWithWhite # targetEdge.targetFace /\ rotations < 4
        THEN WhiteOnSideTurned(manualRotate(cube, "U", TRUE), targetEdge,
                               currentFaceWithWhite, rotations,
                               findEdgePiece(RotateSwitch(cube.state, "U"),
                                             targetEdge.color1, targetEdge.color2))
        ELSE [cube |-> Settled(cube), face |-> currentFaceWithWhite, thrown |-> FALSE]
        : cube \in {theCube}})

\* The insertion with a D turn between the two turns of the target face.
InsertWhiteOnUDown(theLoop, targetFace, description) ==
    Only({
        IF loop.thrown
        THEN [cube |-> loop.cube, description |-> description, thrown |-> TRUE]
        ELSE IF loop.face = targetFace
        THEN [cube |-> applyMoves(loop.cube, <<targetFace, "D", PRIME(targetFace)>>),
              description |-> description, thrown |-> FALSE]
        ELSE [cube |-> applyMoves(loop.cube, <<loop.face, "D", PRIME(loop.face)>>),
              description |-> description, thrown |-> FALSE]
        : loop \in {theLoop}})

\* After the white-on-U loop: the insertion X, U, X' on the target face, or on
\* the face that holds the coloured sticker.
InsertWhiteOnU(theLoop, targetFace, description) ==
    Only({
        IF loop.thrown
        THEN [cube |-> loop.cube, description |-> description, thrown |-> TRUE]
        ELSE IF loop.face = targetFace
        THEN [cube |-> applyMoves(loop.cube, <<targetFace, "U", PRIME(targetFace)>>),
              description |-> description, thrown |-> FALSE]
        ELSE [cube |-> applyMoves(loop.cube, <<loop.face, "U", PRIME(loop.face)>>),
              description |-> description, thrown |-> FALSE]
        : loop \in {theLoop}})

\* After the white-on-side loop: the insertion X, X, or the kick out of the
\* middle layer, which knows the two edges of F only.
InsertWhiteOnSide(theLoop, targetFace, description, currentFaceWithColor1, currentIdxWithWhite) ==
    Only({
        IF loop.thrown
        THEN [cube |-> loop.cube, description |-> description, thrown |-> TRUE]
        ELSE IF loop.face = targetFace
        THEN [cube |-> applyMoves(loop.cube, <<targetFace, targetFace>>),
              description |-> description, thrown |-> FALSE]
        ELSE IF currentFaceWithColor1 \in SideFaces /\ loop.face \in SideFaces
        THEN IF loop.face = "F" /\ currentIdxWithWhite = 5
             THEN [cube |-> applyMoves(loop.cube, <<"R", "U", "R_PRIME">>),
                   description |-> description, thrown |-> FALSE]
             ELSE IF loop.face = "F" /\ currentIdxWithWhite = 3
             THEN [cube |-> applyMoves(loop.cube, <<"L_PRIME", "U_PRIME", "L">>),
                   description |-> description, thrown |-> FALSE]
             ELSE [cube |-> loop.cube, description |-> description, thrown |-> FALSE]
        ELSE [cube |-> loop.cube, description |-> description, thrown |-> FALSE]
        : loop \in {theLoop}})

\* The branch taken when the re-found piece touches the U face or lies in the
\* middle layer: align with U turns, then insert or kick out.
AlignAndInsert(theCube, targetEdge, theCurrentEdgePos) ==
    Only({
            LET whiteFirst == cube.state[currentEdgePos.face1][currentEdgePos.index1] = whiteColor
                currentFaceWithWhite == IF whiteFirst THEN currentEdgePos.face1
                                        ELSE currentEdgePos.face2
                currentIdxWithWhite == IF whiteFirst THEN currentEdgePos.index1
                                       ELSE currentEdgePos.index2
                currentFaceWithColor1 == IF whiteFirst THEN currentEdgePos.face2
                                         ELSE currentEdgePos.face1
            IN  IF currentFaceWithWhite = "U"
                THEN InsertWhiteOnU(WhiteOnULoop(cube, targetEdge, currentFaceWithColor1, 0),
                                    targetEdge.targetFace,
                                    "Aligning and inserting " \o EdgeName(targetEdge)
                                    \o " (white on U). ")
                ELSE InsertWhiteOnSide(WhiteOnSideLoop(cube, targetEdge, currentFaceWithWhite, 0),
                                       targetEdge.targetFace,
                                       "Aligning and inserting " \o EdgeName(targetEdge)
                                       \o " (white on side). ",
                                       currentFaceWithColor1, currentIdxWithWhite)
        : cube \in {theCube}, currentEdgePos \in {theCurrentEdgePos}})

\* An attempt counter that is never incremented.
countAttemptStuck(attempts) == attempts

\* attempts++
countAttempt(attempts) == attempts + 1

\* The end of an attempt: the step with the attempt's moves, attempts++, and
\* the 'Failed to place' step with a break when the budget is used up.  Each
\* step is appended with cube.clone() as the cube is at that moment.
EndAttempt(theCube, targetEdge, attempts, description, stepsBefore, snapshotsBefore, nullAt) ==
    Only({
        LET steps == Append(stepsBefore,
                            SolutionStep(description, MovesOf(cube), "attempt", targetEdge.color1))
            snapshots == Append(snapshotsBefore, clone(cube.state).state)
        IN  IF countAttempt(attempts) >= maxAttempts
            THEN [cube |-> cube, outcome |-> "break", attempts |-> countAttempt(attempts),
                  nullAt |-> nullAt,
                  steps |-> Append(steps,
                                   SolutionStep("Failed to place " \o EdgeName(targetEdge)
                                                \o " edge after multiple attempts.",
                                                <<>>, "failed", targetEdge.color1)),
                  snapshots |-> Append(snapshots, clone(cube.state).state)]
            ELSE [cube |-> cube, outcome |-> "continue", attempts |-> countAttempt(attempts),
                  nullAt |-> nullAt, steps |-> steps, snapshots |-> snapshots]
        : cube \in {theCube}})

\* An attempt from the re-lookup on: down is the cube and the description part
\* after the Down-layer case, currentEdgePos the result of the re-lookup, ins
\* the result of the align-and-insert branch.
AttemptInserted(theIns, targetEdge, attempts, description) ==
    Only({
        IF ins.thrown
        THEN [cube |-> ins.cube, outcome |-> "thrown", attempts |-> attempts,
              nullAt |-> "lookup in U-alignment loop", steps |-> <<>>, snapshots |-> <<>>]
        ELSE EndAttempt(ins.cube, targetEdge, attempts, description \o ins.description,
                        <<>>, <<>>, "none")
        : ins \in {theIns}})

AttemptRelocated(theDown, targetEdge, attempts, theCurrentEdgePos) ==
    Only({
            IF /\ currentEdgePos # Null
               /\ \/ currentEdgePos.face1 = "U"
                  \/ currentEdgePos.face2 = "U"
                  \/ (currentEdgePos.face1 \in SideFaces /\ currentEdgePos.face2 \in SideFaces)
            THEN AttemptInserted(AlignAndInsert(down.cube, targetEdge, currentEdgePos),
                                 targetEdge, attempts,
                                 "Placing " \o EdgeName(targetEdge) \o " edge. " \o down.description)
            ELSE EndAttempt(applyMoves(down.cube, <<"U", "R", "U_PRIME", "R_PRIME">>),
                            targetEdge, attempts,
                            "Placing " \o EdgeName(targetEdge) \o " edge. " \o down.description,
                            << SolutionStep("Could not find standard path for "
                                            \o EdgeName(targetEdge)
                                            \o " edge. Trying to reposition.",
                                            <<>>, "noPath", targetEdge.color1) >>,
                            << clone(down.cube.state).state >>,
                            IF currentEdgePos = Null
                            THEN "lookup after Down-layer moves" ELSE "none")
        : down \in {theDown}, currentEdgePos \in {theCurrentEdgePos}})

AttemptAfterDown(theDown, targetEdge, attempts) ==
    Only({
        AttemptRelocated(down, targetEdge, attempts,
                         findEdgePiece(down.cube.state, targetEdge.color1, targetEdge.color2))
        : down \in {theDown}})

\* An attempt from the first lookup on.
AttemptLocated(cube, targetEdge, attempts, theFirstPos) ==
    Only({
        IF firstPos = Null
        THEN [cube |-> cube, outcome |-> "break", attempts |-> attempts,
              nullAt |-> "initial lookup",
              steps |-> << SolutionStep("Error: Could not find " \o EdgeName(targetEdge)
                                        \o " edge piece.",
                                        <<>>, "notFound", targetEdge.color1) >>,
              snapshots |-> << clone(cube.state).state >>]
        ELSE AttemptAfterDown(DownLayerCase(cube, targetEdge, firstPos), targetEdge, attempts)
        : firstPos \in {theFirstPos}})

\* One iteration of while (attempts < maxAttempts) for a target edge, on a cube
\* whose calls list is empty.  outcome: break, continue, or thrown (a TypeError
\* leaves solveWhiteCross); nullAt: the lookup of this iteration that returned
\* null, if one did.
WhiteCrossIteration(cube, targetEdge, attempts) ==
    IF correctlyPlaced(cube.state, targetEdge)
    THEN [cube |-> cube, outcome |-> "break", attempts |-> attempts, nullAt |-> "none",
          steps |-> << SolutionStep("Edge " \o EdgeName(targetEdge) \o " is correctly placed.",
                                    <<>>, "placed", targetEdge.color1) >>,
          snapshots |-> << clone(cube.state).state >>]
    ELSE AttemptLocated(cube, targetEdge, attempts,
                        findEdgePiece(cube.state, targetEdge.color1, targetEdge.color2))

\* ------------------------------------------------------------ state machine
VARIABLES
    state,      \* cube.state: face key -> 9 stickers
    history,    \* cube.history
    calls,      \* manualRotate calls made so far in the free phase
    lastCall,   \* the symbol of the latest manualRotate call ("" before any)
    prevState,  \* the stickers just before the latest manualRotate call
    recorded,   \* valid symbols applied with record = true since the last reset
    pending,    \* the calls a started scenario has still to make
    before,     \* the stickers when the scenario started
    done,       \* the symbols the scenario has applied so far
    lastOp,     \* the latest operation on the cube and what it was given
    twin,       \* the latest clone() of the cube that a caller holds
    run         \* the solve handler: isSolving, position in solveCube, steps

vars == <<state, history, calls, lastCall, prevState, recorded, pending, before, done,
          lastOp, twin, run>>

\* new RubiksCube()
Init ==
    /\ state = SolvedState
    /\ history = <<>>
    /\ calls = 0
    /\ lastCall = ""
    /\ prevState = SolvedState
    /\ recorded = <<>>
    /\ pending = <<>>
    /\ before = SolvedState
    /\ done = <<>>
    /\ lastOp = [op |-> "new"]
    /\ twin = NoTwin
    /\ run = Idle

\* manualRotate(move, record), called by a move button or any other caller.
ManualRotate(move, record) ==
    /\ pending = <<>> /\ done = <<>>
    /\ run.pc = "idle"
    /\ calls < MaxOps
    /\ prevState' = state
    /\ lastCall' = move
    /\ history' = HistoryPush(history, move, record)
    /\ state' = RotateSwitch(state, move)
    /\ recorded' = IF record /\ move \in Moves THEN Append(recorded, move) ELSE recorded
    /\ calls' = calls + 1
    /\ lastOp' = [op |-> "manualRotate"]
    /\ twin' = OriginalTurned(twin, state, <<move>>)
    /\ UNCHANGED <<pending, before, done, run>>

\* scramble(numMoves): the history is cleared, then numMoves random moves are
\* applied through manualRotate(randomMove, false).
Scramble(numMoves) ==
    /\ pending = <<>> /\ done = <<>>
    /\ run.pc = "idle"
    /\ calls + numMoves <= MaxOps
    /\ calls < MaxOps
    /\ \E randomMoves \in [1..numMoves -> Moves] :
          LET cube == scramble([before |-> state, calls |-> <<>>, history |-> history, state |-> state],
                               numMoves, randomMoves)
          IN  /\ history' = cube.history
              /\ state' = cube.state
              /\ prevState' = IF numMoves = 0 THEN prevState
                              ELSE Replay(state, SubSeq(randomMoves, 1, numMoves - 1))
              /\ lastCall' = IF numMoves = 0 THEN lastCall ELSE randomMoves[numMoves]
              /\ lastOp' = [op |-> "scramble", numMoves |-> numMoves,
                            calls |-> cube.calls,
                            stateBefore |-> state, historyBefore |-> history]
              /\ twin' = OriginalTurned(twin, state, randomMoves)
    /\ recorded' = <<>>
    /\ calls' = IF numMoves = 0 THEN calls + 1 ELSE calls + numMoves
    /\ UNCHANGED <<pending, before, done, run>>

\* A caller commits to one of the scenarios on a cube whose history is empty.
StartScenario(script) ==
    /\ pending = <<>> /\ done = <<>>
    /\ calls <= MaxPrefix
    /\ history = <<>>
    /\ pending' = script
    /\ before' = state
    /\ run.pc = "idle"
    /\ UNCHANGED <<state, history, calls, lastCall, prevState, recorded, done,
                   lastOp, twin, run>>

\* The commutator scenario starts from a solved cube.
StartCommutator ==
    /\ isSolved(state)
    /\ StartScenario(Repeat(Commutator, MaxReps))

\* The next manualRotate(move, true) of the started scenario.
ScenarioRotate ==
    /\ pending # <<>>
    /\ prevState' = state
    /\ lastCall' = Head(pending)
    /\ history' = HistoryPush(history, Head(pending), TRUE)
    /\ state' = RotateSwitch(state, Head(pending))
    /\ recorded' = IF Head(pending) \in Moves THEN Append(recorded, Head(pending)) ELSE recorded
    /\ done' = Append(done, Head(pending))
    /\ pending' = Tail(pending)
    /\ lastOp' = [op |-> "manualRotate"]
    /\ twin' = OriginalTurned(twin, state, <<Head(pending)>>)
    /\ UNCHANGED <<calls, before, run>>

Next ==
    \/ \E move \in Moves \cup BadSymbols, record \in BOOLEAN : ManualRotate(move, record)
    \/ \E numMoves \in 0..MaxScramble : Scramble(numMoves)
    \/ \E script \in PairScripts \cup FourScripts \cup OppositeScripts : StartScenario(script)
    \/ StartCommutator
    \/ ScenarioRotate

Spec == Init /\ [][Next]_vars

\* cube.clone() by a caller that keeps the clone.
TakeClone ==
    /\ pending = <<>> /\ done = <<>>
    /\ run.pc = "idle"
    /\ ~twin.exists
    /\ twin' = clone(state)
    /\ UNCHANGED <<state, history, calls, lastCall, prevState, recorded,
                   pending, before, done, lastOp, run>>

\* manualRotate(move) on the clone.
TwinRotate(move) ==
    /\ twin.exists
    /\ run.pc = "idle"
    /\ calls < MaxOps
    /\ \E r \in {TurnAliased(twin.state, state, twin.shared, move)} :
           /\ twin' = [twin EXCEPT !.state = r.mine, !.shared = r.shared,
                                   !.turned = TRUE,
                                   !.origIntact = twin.origIntact /\ r.other = state]
           /\ state' = r.other
    /\ calls' = calls + 1
    /\ lastOp' = [op |-> "twinRotate"]
    /\ UNCHANGED <<history, lastCall, prevState, recorded, pending, before, done, run>>

\* The click handler of solveButton up to the first step of solveCube: the
\* early return on a solved cube, or the history reset and the opening step.
\* The clone handed to appendSolutionStep with that step is kept in twin.
SolveClick ==
    /\ pending = <<>> /\ done = <<>>
    /\ run.pc = "idle" /\ ~run.isSolving
    /\ ~run.buttons.solveButton
    /\ ~twin.exists
    /\ IF isSolved(state)
       THEN /\ run' = [run EXCEPT !.isSolving = TRUE, !.pc = "returned",
                                  !.buttons = toggleButtons(TRUE),
                                  !.outcome = "returned",
                                  !.status = "Cube is solved!",
                                  !.steps = << SolutionStep("Cube is already solved!",
                                                            <<>>, "info", "") >>,
                                  !.snapshots = << clone(state).state >>,
                                  !.historyBefore = history]
            /\ UNCHANGED <<history, recorded>>
       ELSE /\ history' = <<>>
            /\ recorded' = <<>>
            /\ run' = [run EXCEPT !.isSolving = TRUE, !.pc = "crossStart",
                                  !.buttons = toggleButtons(TRUE),
                                  !.status = "Starting solution algorithm...",
                                  !.steps = << SolutionStep("Starting solution algorithm...",
                                                            <<>>, "info", "") >>,
                                  !.snapshots = << clone(state).state >>,
                                  !.historyBefore = history]
    /\ twin' = clone(state)
    /\ lastOp' = [op |-> "solve"]
    /\ UNCHANGED <<state, calls, lastCall, prevState, pending, before, done>>

\* The head of solveWhiteCross: status, the phase step, the first target edge.
CrossStart ==
    /\ run.pc = "crossStart"
    /\ run' = [run EXCEPT !.pc = "cross", !.edge = 1, !.attempts = 0,
                          !.status = "Phase 1: Solving the White Cross...",
                          !.steps = Append(@, SolutionStep("Phase 1: Solving the White Cross",
                                                           <<>>, "info", "")),
                          !.snapshots = Append(@, clone(state).state)]
    /\ UNCHANGED <<state, history, calls, lastCall, prevState, recorded,
                   pending, before, done, lastOp, twin>>

\* One iteration of the while loop of solveWhiteCross for the current target
\* edge, with the steps it appends; a break goes on to the next target edge.
CrossIteration ==
    /\ run.pc = "cross"
    /\ run.attempts < maxAttempts
    /\ \E it \in {WhiteCrossIteration([before |-> state, calls |-> <<>>, history |-> history, state |-> state],
                                        targetEdges[run.edge], run.attempts)} :
       \E moves \in {MovesOf(it.cube)} :
           /\ state' = it.cube.state
           /\ history' = it.cube.history
           /\ recorded' = recorded \o moves
           /\ lastCall' = IF moves = <<>> THEN lastCall ELSE moves[Len(moves)]
           /\ prevState' = IF moves = <<>> THEN prevState ELSE it.cube.before
           /\ twin' = OriginalTurned(twin, state, moves)
           /\ run' = [run EXCEPT
                        !.steps = @ \o it.steps,
                        !.snapshots = @ \o it.snapshots,
                        !.applied = @ \o moves,
                        !.nullAt = it.nullAt,
                        !.attempts = IF it.outcome = "continue" THEN it.attempts ELSE 0,
                        !.edge = IF it.outcome = "break" /\ run.edge < Len(targetEdges)
                                 THEN run.edge + 1 ELSE run.edge,
                        !.pc = CASE it.outcome = "thrown" -> "thrown"
                                 [] it.outcome = "break" /\ run.edge = Len(targetEdges)
                                      -> "crossEnd"
                                 [] OTHER -> "cross",
                        !.outcome = IF it.outcome = "thrown" THEN "thrown" ELSE @]
    /\ UNCHANGED <<calls, pending, before, done, lastOp>>

\* The end of solveWhiteCross and the isSolved test that follows it in solveCube.
CrossEnd ==
    /\ run.pc = "crossEnd"
    /\ run' = [run EXCEPT
                 !.steps = Append(@, SolutionStep("White Cross Solved!", <<>>, "info", "")),
                 !.snapshots = Append(@, clone(state).state),
                 !.status = IF isSolved(state) THEN "Cube Solved! Congratulations!"
                            ELSE "White Cross Solved!",
                 !.pc = IF isSolved(state) THEN "returned" ELSE "phase",
                 !.outcome = IF isSolved(state) THEN "returned" ELSE @,
                 !.phase = 2]
    /\ UNCHANGED <<state, history, calls, lastCall, prevState, recorded,
                   pending, before, done, lastOp, twin>>

\* A phase after the white cross that turns D, recorded, besides emitting its step.
PlaceholderPhaseTurning ==
    /\ run.pc = "phase"
    /\ LET steps == Append(run.steps,
                           SolutionStep(placeholderPhases[run.phase].step, <<>>, "info", ""))
           snapshots == Append(run.snapshots, clone(state).state)
       IN  run' = IF isSolved(state)
                  THEN [run EXCEPT !.steps = steps, !.snapshots = snapshots, !.pc = "returned",
                                   !.outcome = "returned",
                                   !.status = "Cube Solved! Congratulations!"]
                  ELSE IF run.phase < 7
                  THEN [run EXCEPT !.steps = steps, !.snapshots = snapshots, !.phase = @ + 1,
                                   !.status = placeholderPhases[run.phase].status]
                  ELSE [run EXCEPT !.steps = Append(steps,
                                       SolutionStep(incompleteStatus, <<>>, "info", "")),
                                   !.snapshots = Append(snapshots, clone(state).state),
                                   !.pc = "returned", !.outcome = "returned",
                                   !.status = incompleteStatus]
    /\ state' = RotateSwitch(state, "D")
    /\ history' = Append(history, "D")
    /\ UNCHANGED <<calls, lastCall, prevState, recorded,
                   pending, before, done, lastOp, twin>>

\* One placeholder phase and the isSolved test after it; after the last phase
\* the else branch reports the incomplete status and appends its step.
PlaceholderPhase ==
    /\ run.pc = "phase"
    /\ LET steps == Append(run.steps,
                           SolutionStep(placeholderPhases[run.phase].step, <<>>, "info", ""))
           snapshots == Append(run.snapshots, clone(state).state)
       IN  run' = IF isSolved(state)
                  THEN [run EXCEPT !.steps = steps, !.snapshots = snapshots, !.pc = "returned",
                                   !.outcome = "returned",
                                   !.status = "Cube Solved! Congratulations!"]
                  ELSE IF run.phase < 7
                  THEN [run EXCEPT !.steps = steps, !.snapshots = snapshots, !.phase = @ + 1,
                                   !.status = placeholderPhases[run.phase].status]
                  ELSE [run EXCEPT !.steps = Append(steps,
                                       SolutionStep(incompleteStatus, <<>>, "info", "")),
                                   !.snapshots = Append(snapshots, clone(state).state),
                                   !.pc = "returned", !.outcome = "returned",
                                   !.status = incompleteStatus]
    /\ UNCHANGED <<state, history, calls, lastCall, prevState, recorded,
                   pending, before, done, lastOp, twin>>

\* The click handler without try: what follows the await runs only when
\* solveCube returns.
SolveFinallyOnReturn ==
    /\ run.pc = "returned"
    /\ run' = [run EXCEPT
                 !.isSolving = FALSE, !.pc = "finished",
                 !.buttons = toggleButtons(FALSE)]
    /\ UNCHANGED <<state, history, calls, lastCall, prevState, recorded,
                   pending, before, done, lastOp, twin>>

\* The catch and finally blocks of the click handler.
SolveFinally ==
    /\ run.pc \in {"returned", "thrown"}
    /\ run' = [run EXCEPT
                 !.isSolving = FALSE, !.pc = "finished",
                 !.buttons = toggleButtons(FALSE),
                 !.status = IF run.pc = "thrown"
                            THEN "An error occurred during solving. Check console for details."
                            ELSE @]
    /\ UNCHANGED <<state, history, calls, lastCall, prevState, recorded,
                   pending, before, done, lastOp, twin>>

\* The solver's steps, from the click to the finally block.
SolverStep ==
    SolveClick \/ CrossStart \/ CrossIteration \/ CrossEnd \/ PlaceholderPhase \/ SolveFinally

\* The page: move buttons, a caller holding a clone, and the solve button.
SolveNext ==
    \/ \E move \in Moves : ManualRotate(move, TRUE)
    \/ TakeClone
    \/ \E move \in Moves : TwinRotate(move)
    \/ SolveClick
    \/ CrossStart
    \/ CrossIteration
    \/ CrossEnd
    \/ PlaceholderPhase
    \/ SolveFinally

SolveSpec == Init /\ [][SolveNext]_vars

\* The page with the six clockwise buttons alone: they reach every cube state
\* the twelve buttons reach (a counter-clockwise turn is three clockwise ones).
LiveNext ==
    \/ \E faceKey \in Faces : ManualRotate(faceKey, TRUE)
    \/ SolverStep

\* The display timers fire: a started solve keeps taking its steps.
SolveLive == Init /\ [][LiveNext]_vars /\ WF_vars(SolverStep)

\* A click on a move button that is not disabled: manualRotate(move).
MoveClick(move) ==
    /\ ~run.buttons.moveButtons
    /\ calls < MaxOps
    /\ prevState' = state
    /\ lastCall' = move
    /\ history' = HistoryPush(history, move, TRUE)
    /\ state' = RotateSwitch(state, move)
    /\ recorded' = Append(recorded, move)
    /\ calls' = calls + 1
    /\ lastOp' = [op |-> "manualRotate"]
    /\ twin' = OriginalTurned(twin, state, <<move>>)
    /\ UNCHANGED <<pending, before, done, run>>

\* A click on the scramble button that is not disabled, taken as the first
\* operation on the cube: the handler returns when a solve is running, else
\* disables the buttons and sets the timer of its callback.
ScrambleClick ==
    /\ ~run.buttons.scrambleButton
    /\ calls = 0
    /\ ~run.isSolving
    /\ run' = [run EXCEPT !.buttons = toggleButtons(TRUE), !.timer = TRUE,
                          !.status = "Scrambling..."]
    /\ UNCHANGED <<state, history, calls, lastCall, prevState, recorded,
                   pending, before, done, lastOp, twin>>

\* The callback of the scramble click: rubiksCube.scramble with clockwise
\* turns as the random moves, the steps container overwritten, the buttons
\* enabled again.
ScrambleTimer ==
    /\ run.timer
    /\ \E randomMoves \in [1..MaxScrambleClick -> Faces] :
          \E cube \in {scramble([before |-> state, calls |-> <<>>, history |-> history,
                                  state |-> state], MaxScrambleClick, randomMoves)} :
              /\ history' = cube.history
              /\ state' = cube.state
              /\ prevState' = cube.before
              /\ lastCall' = randomMoves[MaxScrambleClick]
              /\ lastOp' = [op |-> "scramble", numMoves |-> MaxScrambleClick,
                            calls |-> cube.calls,
                            stateBefore |-> state, historyBefore |-> history]
              /\ twin' = OriginalTurned(twin, state, randomMoves)
    /\ recorded' = <<>>
    /\ calls' = calls + MaxScrambleClick
    /\ run' = [run EXCEPT !.buttons = toggleButtons(FALSE), !.timer = FALSE,
                          !.steps = <<>>, !.snapshots = <<>>,
                          !.status = "Cube scrambled. Ready to solve."]
    /\ UNCHANGED <<pending, before, done>>

\* The page as its buttons drive it: move buttons, the scramble button with
\* its timer, the solve button with the solver's steps.
PageNext ==
    \/ \E move \in Moves : MoveClick(move)
    \/ ScrambleClick
    \/ ScrambleTimer
    \/ SolveClick
    \/ CrossStart
    \/ CrossIteration
    \/ CrossEnd
    \/ PlaceholderPhase
    \/ SolveFinally

PageSpec == Init /\ [][PageNext]_vars

\* The move buttons alone: every click is manualRotate(move) on one of the 12
\* symbols, recorded by default.
TurnNext == \E move \in Moves : ManualRotate(move, TRUE)

TurnSpec == Init /\ [][TurnNext]_vars

\* ------------------------------------------------------------------ claims
\* How many of the 54 stickers show colour c.
CountOf(s, c) == Cardinality({p \in Faces \X (0..8) : s[p[1]][p[2]] = c})

\* C1: in every reachable state each of the 6 colours occurs exactly 9 times
\* among the 54 stickers.
StickerConservation == \A c \in Colors : CountOf(state, c) = 9

\* A scrambled cube that a recorded move has just changed, with a mixed F face.
StickerConservationWitness ==
    /\ lastCall \in Moves /\ state # prevState
    /\ history # <<>>
    /\ \E i \in 0..8 : state["F"][i] # colors["F"]
    /\ ~isSolved(prevState)

\* C2: a move followed by its prime counterpart (X then X_PRIME, X_PRIME then
\* X) restores all 54 stickers to their values before the pair.
InverseLaw == done \in PairScripts => state = before

\* The pair F_PRIME, F has been applied to an unsolved cube and changed it in between.
InverseLawWitness ==
    /\ done = <<"F_PRIME", "F">>
    /\ ~isSolved(before)
    /\ prevState # before
    /\ state = before

\* C3: the same move applied four times in a row restores all 54 stickers.
Order4Law == done \in FourScripts => state = before

\* Four B_PRIME turns have been applied to an unsolved cube.
Order4LawWitness ==
    /\ done = <<"B_PRIME", "B_PRIME", "B_PRIME", "B_PRIME">>
    /\ ~isSolved(before)
    /\ prevState # before
    /\ state = before

\* C4: turns of two opposite faces commute: A then B gives the same 54 stickers
\* as B then A.
OppositeFacesCommute ==
    done \in OppositeScripts => state = Replay(before, <<done[2], done[1]>>)

\* L then R_PRIME have been applied to an unsolved cube.
OppositeFacesCommuteWitness ==
    /\ done = <<"L", "R_PRIME">>
    /\ ~isSolved(before)
    /\ state # before /\ state # prevState

\* C5: the sticker at index 4 of every face is that face's identity colour.
CentreInvariance == \A f \in Faces : state[f][4] = colors[f]

\* A cube that moves have mixed on every face.
CentreInvarianceWitness ==
    /\ lastCall \in Moves
    /\ \A f \in Faces : \E i \in 0..8 : state[f][i] # colors[f]

\* C6: isSolved() is true on a freshly constructed cube and false after any one
\* of the 12 moves has been applied to a solved cube.
SolvedDetection ==
    /\ (lastCall = "" => isSolved(state))
    /\ (lastCall \in Moves /\ prevState = SolvedState => ~isSolved(state))

\* One move has just been applied to the solved cube, leaving the F face whole.
SolvedDetectionWitness ==
    /\ lastCall = "B" /\ prevState = SolvedState
    /\ state["F"] = SolvedState["F"]
    /\ ~isSolved(state)

\* C7: R, U, R_PRIME, U_PRIME applied 6 times to the solved cube solves it again.
CommutatorOrder6 ==
    (before = SolvedState /\ done = Repeat(Commutator, 6)) => isSolved(state)

\* The 24 moves have been applied.
CommutatorOrder6Witness ==
    /\ before = SolvedState /\ Len(done) = 24 /\ done = Repeat(Commutator, 6)
    /\ ~isSolved(prevState)
    /\ isSolved(state)

\* C8: after R, U, R_PRIME, U_PRIME applied 4 times to the solved cube the cube
\* is not solved.
CommutatorNotOrder4 ==
    (before = SolvedState /\ done = Repeat(Commutator, 4)) => ~isSolved(state)

\* The 16 moves have been applied.
CommutatorNotOrder4Witness ==
    /\ before = SolvedState /\ Len(done) = 16 /\ done = Repeat(Commutator, 4)
    /\ ~isSolved(state)

\* C9: manualRotate with a symbol outside the 12 leaves all 54 stickers as
\* they were.
InvalidMoveRejected == lastCall \in BadSymbols => state = prevState

\* An unknown symbol has been passed on a scrambled cube.
InvalidMoveRejectedWitness ==
    /\ lastCall = "U2"
    /\ ~isSolved(state)
    /\ state = prevState

\* C10: cube.history is exactly the sequence of symbols applied to the stickers
\* with record = true since the last reset; a rejected symbol is not in it.
HistoryExact == history = recorded

\* C11: scramble(n) makes exactly n manualRotate calls, each with one of the 12
\* valid symbols and with record = false, and leaves cube.history empty
\* whatever the history held before the call; the stickers are those that the
\* n moves give.
ScrambleEffect ==
    lastOp.op = "scramble" =>
        /\ Len(lastOp.calls) = lastOp.numMoves
        /\ \A i \in 1..Len(lastOp.calls) :
              lastOp.calls[i][1] \in Moves /\ lastOp.calls[i][2] = FALSE
        /\ history = <<>>
        /\ state = Replay(lastOp.stateBefore,
                          [i \in 1..Len(lastOp.calls) |-> lastOp.calls[i][1]])

\* A scramble of at least one move has run on a cube whose history was not empty.
ScrambleEffectWitness ==
    /\ lastOp.op = "scramble"
    /\ lastOp.numMoves >= 1
    /\ lastOp.historyBefore # <<>>
    /\ state # lastOp.stateBefore

\* The 12 colour pairs that label a real edge piece: the identity colours of
\* two adjacent faces.
AdjacentFacePairs == {p \in Faces \X Faces : p[2] \notin {p[1], Opposite(p[1])}}

\* The places of the table that hold the unordered pair {a, b}, each place
\* taken as the set of its two (face, index) stickers.
PlacesHolding(s, a, b) ==
    {{<<edgePositions[k].face1, edgePositions[k].index1>>,
      <<edgePositions[k].face2, edgePositions[k].index2>>} :
        k \in {j \in 1..Len(edgePositions) :
                 {s[edgePositions[j].face1][edgePositions[j].index1],
                  s[edgePositions[j].face2][edgePositions[j].index2]} = {a, b}}}

\* C14: in every state reachable by the 12 moves, findEdgePiece returns a
\* location, never null, for each of the 12 colour pairs of a real edge piece.
LocatorExistence ==
    \A p \in AdjacentFacePairs :
        findEdgePiece(state, colors[p[1]], colors[p[2]]) # Null

\* C15: in every state reachable by the 12 moves, at most one of the 12
\* canonical edge positions holds the unordered colour pair of a real edge.
LocatorUniqueness ==
    \A p \in AdjacentFacePairs :
        Cardinality(PlacesHolding(state, colors[p[1]], colors[p[2]])) <= 1

\* C16: findEdgePiece(cube, a, b) and findEdgePiece(cube, b, a) return the same
\* result for every two colours, and the two stickers at a returned location
\* are exactly the unordered pair {a, b}.
LocatorOrderIndependence ==
    \A a \in Colors, b \in Colors :
        LET pos == findEdgePiece(state, a, b)
        IN  /\ pos = findEdgePiece(state, b, a)
            /\ pos # Null =>
                  {state[pos.face1][pos.index1], state[pos.face2][pos.index2]} = {a, b}

\* On a turned cube the lookup of (white, red) matches a place whose first
\* sticker is red, and the lookup of (green, yellow) finds nothing in either
\* order.
LocatorOrderIndependenceWitness ==
    /\ lastCall \in Moves /\ state # prevState
    /\ findEdgePiece(state, "w", "r") # Null
    /\ state[findEdgePiece(state, "w", "r").face1][findEdgePiece(state, "w", "r").index1] = "r"
    /\ findEdgePiece(state, "g", "y") = Null
    /\ findEdgePiece(state, "y", "g") = Null

\* The index of the sticker of face X that lies on the edge X shares with Y:
\* the middle index of the band of X in the turn of Y.
SharedIndex(X, Y) ==
    LET band == CHOOSE e \in {EdgesOf(Y)[k] : k \in 1..4} : e.face = X
    IN  band.indices[2]

\* C17: on the solved cube, for each pair of adjacent faces (X, Y) findEdgePiece
\* returns the position whose faces are X and Y at the indices where they
\* share an edge, and for each pair of opposite faces it returns null.
LocatorOnSolved ==
    isSolved(state) =>
        /\ \A p \in AdjacentFacePairs :
              LET pos == findEdgePiece(state, colors[p[1]], colors[p[2]])
              IN  /\ pos # Null
                  /\ {<<pos.face1, pos.index1>>, <<pos.face2, pos.index2>>}
                       = {<<p[1], SharedIndex(p[1], p[2])>>,
                          <<p[2], SharedIndex(p[2], p[1])>>}
        /\ \A f \in Faces :
              findEdgePiece(state, colors[f], colors[Opposite(f)]) = Null

\* The cube is solved again after two calls, and the red-blue lookup answers
\* F 3 with L 5.
LocatorOnSolvedWitness ==
    /\ isSolved(state) /\ calls = 2 /\ ~isSolved(prevState)
    /\ findEdgePiece(state, "r", "b")
         = [face1 |-> "F", index1 |-> 3, face2 |-> "L", index2 |-> 5]

\* C12: whenever solveCube has returned, cube.history holds exactly the moves
\* that call applied (none if it applied none), whatever the history held
\* before the call.
HistoryResetBySolve ==
    run.outcome = "returned" => history = run.applied

\* C13: a clone has the stickers of its original when it is taken, and every
\* later move on the clone leaves the original's stickers as they were, and
\* every later move on the original (the solver's moves after a step's
\* snapshot included) leaves the clone's stickers as they were.
CloneIndependence ==
    twin.exists =>
        /\ twin.origIntact
        /\ twin.cloneIntact
        /\ (~twin.turned => twin.state = state)

\* A clone was the last to be turned, the original has been turned too, and the
\* two cubes differ.
CloneIndependenceWitness ==
    /\ twin.exists /\ twin.turned
    /\ lastOp.op = "twinRotate"
    /\ state # SolvedState
    /\ twin.state # state

\* The attempts of the cross phase on the target edge whose first colour is
\* color1: the steps appended at the end of an attempt.
AttemptsOn(color1) ==
    Cardinality({i \in 1..Len(run.steps) :
                    run.steps[i].kind = "attempt" /\ run.steps[i].edge = color1})

\* C18: solveWhiteCross terminates from every reachable cube state, and it
\* makes at most 20 attempts on each of its four target edges.
BoundedCrossPhase ==
    /\ [](/\ run.attempts <= maxAttempts
          /\ \A e \in 1..Len(targetEdges) : AttemptsOn(targetEdges[e].color1) <= maxAttempts)
    /\ (run.pc = "cross" ~> run.pc # "cross")

\* The cross phase is over after it used the whole budget of 20 attempts on
\* one of its target edges.
BoundedCrossPhaseWitness ==
    /\ run.pc \in {"crossEnd", "phase", "returned", "thrown", "finished"}
    /\ \E e \in 1..Len(targetEdges) : AttemptsOn(targetEdges[e].color1) = maxAttempts

\* A 'Failed to place' step was emitted for the target edge whose first colour
\* is color1.
FailedOn(color1) ==
    \E i \in 1..Len(run.steps) :
        run.steps[i].kind = "failed" /\ run.steps[i].edge = color1

\* C19: when the 20th attempt on a target edge ends without the edge seated,
\* a 'Failed to place' step is emitted for that edge and the cross phase goes
\* on with the next edge; such a solve ends with the incomplete status and
\* never with an exception.
BudgetExhaustionRecoverable ==
    \A e \in 1..Len(targetEdges) :
        /\ (/\ AttemptsOn(targetEdges[e].color1) = maxAttempts
            /\ (run.pc # "cross" \/ run.edge # e))
              => FailedOn(targetEdges[e].color1)
        /\ FailedOn(targetEdges[e].color1) =>
              /\ run.outcome # "thrown"
              /\ (run.pc = "finished" => run.status = incompleteStatus)

\* C20: whenever a lookup of the current target edge returns null (the
\* initial lookup, the lookup after the Down-layer moves, or a lookup in a
\* U-alignment loop), the cross phase narrates it in a step and goes on
\* without aborting the solve.
PieceNotFoundSurfaced ==
    run.nullAt # "none" =>
        /\ run.outcome # "thrown"
        /\ \E i \in 1..Len(run.steps) : run.steps[i].kind \in {"notFound", "noPath"}

\* C21: from every cube the move buttons reach, solveCube runs to its end: it
\* raises no exception, and when it has returned the status is the solved
\* status or the incomplete status.
NoFatalCondition ==
    /\ run.outcome # "thrown"
    /\ run.outcome = "returned" =>
           run.status \in {"Cube is solved!", "Cube Solved! Congratulations!",
                           incompleteStatus}

\* The D sticker of the bottom edge of each side face: D[1], D[5], D[7], D[3]
\* under F, R, B, L.
CrossSlot == [F |-> 1, R |-> 5, B |-> 7, L |-> 3]

\* The bottom edge of a side face is seated: index 7 of the face shows the
\* face's colour and its D sticker is white.
Seated(s, faceKey) ==
    /\ s[faceKey][7] = colors[faceKey]
    /\ s["D"][CrossSlot[faceKey]] = colors["D"]

AllSeated(s) == \A faceKey \in SideFaces : Seated(s, faceKey)

\* C22: an iteration of the cross phase that finds its target edge seated
\* appends the 'correctly placed' step of that edge and makes no move; when all
\* four target edges are seated as the solve starts, the cross phase ends with
\* the stickers and the history as they were.
SeatedEdgeCostsNothing ==
    /\ [][(run.pc = "cross" /\ Seated(state, targetEdges[run.edge].targetFace)) =>
            /\ state' = state
            /\ history' = history
            /\ run'.applied = run.applied
            /\ run'.steps = Append(run.steps,
                   SolutionStep("Edge " \o EdgeName(targetEdges[run.edge])
                                \o " is correctly placed.",
                                <<>>, "placed", targetEdges[run.edge].color1))]_vars
    /\ []((run.pc = "crossEnd" /\ AllSeated(twin.state)) =>
            /\ state = twin.state
            /\ history = <<>>
            /\ run.applied = <<>>)

\* A cross phase has ended on an unsolved cube whose four target edges were
\* seated: four 'correctly placed' steps and no move.
SeatedEdgeCostsNothingWitness ==
    /\ run.pc = "crossEnd"
    /\ AllSeated(twin.state)
    /\ ~isSolved(state)
    /\ Cardinality({i \in 1..Len(run.steps) : run.steps[i].kind = "placed"}) = 4

\* The solve was started on the solved cube scrambled by one quarter turn of a
\* side face, which displaces the bottom edge of that face alone.
OneMoveScramble ==
    /\ Len(run.historyBefore) = 1
    /\ FaceOf(run.historyBefore[1]) \in SideFaces
    /\ twin.state = RotateSwitch(SolvedState, run.historyBefore[1])

\* C23: after a one-move scramble by a side face the cross phase ends with the
\* displaced edge seated and its 'correctly placed' step emitted, after fewer
\* than 20 attempts on it.
OneMoveScrambleSeated ==
    (OneMoveScramble /\ run.pc = "crossEnd") =>
        LET faceKey == FaceOf(run.historyBefore[1])
        IN  /\ Seated(state, faceKey)
            /\ \E i \in 1..Len(run.steps) :
                   /\ run.steps[i].kind = "placed"
                   /\ run.steps[i].edge = colors[faceKey]
            /\ AttemptsOn(colors[faceKey]) < maxAttempts

\* C24: an attempt of the cross phase leaves seated every target edge other
\* than its own that was seated when it began; after a one-move scramble the
\* three edges that started seated are seated when the phase ends.
SeatedEdgesStaySeated ==
    /\ [][run.pc = "cross" =>
            \A faceKey \in SideFaces \ {targetEdges[run.edge].targetFace} :
                Seated(state, faceKey) => Seated(state', faceKey)]_vars
    /\ []((OneMoveScramble /\ run.pc = "crossEnd") =>
            \A faceKey \in SideFaces \ {FaceOf(run.historyBefore[1])} :
                Seated(twin.state, faceKey) /\ Seated(state, faceKey))

\* An attempt has made moves on a cube with three seated target edges, which
\* are still seated at the end of the phase.
SeatedEdgesStaySeatedWitness ==
    /\ OneMoveScramble
    /\ run.pc = "crossEnd"
    /\ run.applied # <<>>
    /\ Cardinality({faceKey \in SideFaces : Seated(state, faceKey)}) = 3

\* C25: the snapshot of every step after the first is the snapshot of the step
\* before it with the moves listed in the step applied; a step without moves
\* has the snapshot of the step before it.
StepSnapshotConsistency ==
    \A i \in 2..Len(run.steps) :
        run.snapshots[i] = Replay(run.snapshots[i - 1], run.steps[i].moves)

\* The two statuses that report a solved cube.
SolvedStatuses == {"Cube Solved! Congratulations!", "Cube is solved!"}

\* C26: while a solve runs, a status reporting a solved cube is shown only when
\* isSolved holds for the cube; a run of solveCube that has ended without such
\* a status has reported the incomplete status.
NoFalseCompletion ==
    /\ (run.isSolving /\ run.status \in SolvedStatuses) => isSolved(state)
    /\ (run.pc \in {"returned", "thrown"} /\ run.status \notin SolvedStatuses) =>
           run.status = incompleteStatus

\* C27: while isSolving is set the three kinds of buttons are disabled and no
\* scramble callback is due; every step taken in that interval belongs to the
\* solve, and changes the stickers and the history only by the moves the solver
\* applies in it.
ExclusiveMutation ==
    /\ [](run.isSolving =>
            /\ run.buttons.scrambleButton
            /\ run.buttons.solveButton
            /\ run.buttons.moveButtons
            /\ ~run.timer)
    /\ [][run.isSolving =>
            /\ lastOp' = [op |-> "solve"]
            /\ ~run'.timer
            /\ Len(run'.applied) >= Len(run.applied)
            /\ SubSeq(run'.applied, 1, Len(run.applied)) = run.applied
            /\ LET solverMoves == SubSeq(run'.applied, Len(run.applied) + 1,
                                         Len(run'.applied))
               IN  /\ state' = Replay(state, solverMoves)
                   /\ history' = history \o solverMoves]_vars

\* A solve started after a scramble is running, has turned the cube, and the
\* buttons are disabled.
ExclusiveMutationWitness ==
    /\ run.isSolving
    /\ run.applied # <<>>
    /\ calls = MaxScrambleClick
    /\ run.buttons.moveButtons /\ run.buttons.scrambleButton

\* A cube whose sticker at index i of face f is the place <<f, i>> itself, so
\* that a turn applied to it shows where every sticker goes.
PlaceRow(f) ==
    (0 :> <<f, 0>>) @@ (1 :> <<f, 1>>) @@ (2 :> <<f, 2>>) @@ (3 :> <<f, 3>>)
    @@ (4 :> <<f, 4>>) @@ (5 :> <<f, 5>>) @@ (6 :> <<f, 6>>) @@ (7 :> <<f, 7>>)
    @@ (8 :> <<f, 8>>)

PlaceCube ==
    ("F" :> PlaceRow("F")) @@ ("R" :> PlaceRow("R")) @@ ("U" :> PlaceRow("U"))
    @@ ("B" :> PlaceRow("B")) @@ ("L" :> PlaceRow("L")) @@ ("D" :> PlaceRow("D"))

\* The 12 canonical edge positions: the pairs of places of the findEdgePiece table.
EdgePairs ==
    {{<<edgePositions[k].face1, edgePositions[k].index1>>,
      <<edgePositions[k].face2, edgePositions[k].index2>>} : k \in 1..Len(edgePositions)}

\* The place where the sticker that started at a place is found on a cube.
PlaceOf(s, place) == CHOOSE p \in Faces \X (0..8) : s[p[1]][p[2]] = place

\* The two stickers of every canonical edge position are on one canonical edge
\* position after the move.
EdgeKept(move) ==
    \A pair \in EdgePairs :
        {PlaceOf(RotateSwitch(PlaceCube, move), place) : place \in pair} \in EdgePairs

\* C28: every move that has been made takes the two stickers of each of the 12
\* canonical edge positions to one canonical edge position.
EdgePiecesMoveAsUnits == lastCall \in Moves => EdgeKept(lastCall)

\* C29: when the status 'White Cross Solved!' is shown and its step has been
\* appended, the four target edges are seated: F[7], R[7], B[7], L[7] show the
\* colours of their faces and D[1], D[5], D[7], D[3] are white.
WhiteCrossTruthful ==
    (/\ run.status = "White Cross Solved!"
     /\ run.steps # <<>>
     /\ run.steps[Len(run.steps)].description = "White Cross Solved!") =>
        AllSeated(run.snapshots[Len(run.snapshots)]) /\ AllSeated(state)

\* What the Down-layer case can add to the description of an attempt.
DownDescriptions ==
    {""} \cup {"Flipping " \o f \o " edge in D layer." : f \in SideFaces}
         \cup {"Moving " \o f \o " edge from D layer to U layer." : f \in SideFaces}

\* The descriptions of the attempts on a target edge that went through the
\* alignment with the white sticker on U, or on a side face.
AlignedDescriptions(targetEdge, where) ==
    {"Placing " \o EdgeName(targetEdge) \o " edge. " \o d
     \o "Aligning and inserting " \o EdgeName(targetEdge) \o " (white on " \o where \o "). "
     : d \in DownDescriptions}

\* The last n moves of a move list, or the whole list when it is shorter.
LastMoves(moves, n) ==
    IF Len(moves) < n THEN moves ELSE SubSeq(moves, Len(moves) - n + 1, Len(moves))

\* The step of an attempt that ended with an aligned insertion: X, U, X' after
\* the white-on-U alignment, or X, X after the white-on-side alignment, X being
\* the target face.
AlignedInsertion(step, targetEdge) ==
    /\ step.kind = "attempt"
    /\ step.edge = targetEdge.color1
    /\ \/ /\ step.description \in AlignedDescriptions(targetEdge, "U")
          /\ LastMoves(step.moves, 3)
               = <<targetEdge.targetFace, "U", PRIME(targetEdge.targetFace)>>
       \/ /\ step.description \in AlignedDescriptions(targetEdge, "side")
          /\ LastMoves(step.moves, 2) = <<targetEdge.targetFace, targetEdge.targetFace>>

\* C30: at the end of an attempt that took an aligned insertion the target edge
\* is seated.
AlignedInsertionSeats ==
    \A i \in 1..Len(run.steps) : \A k \in 1..Len(targetEdges) :
        AlignedInsertion(run.steps[i], targetEdges[k]) =>
            Seated(run.snapshots[i], targetEdges[k].targetFace)

\* The Down-layer case of the attempt that is about to begin: the cube after
\* its moves and the re-lookup that follows, for a target piece that is not
\* seated and was found with a sticker on D; Null fields when no attempt is
\* about to begin or the piece is elsewhere.
DownLayerAttempt ==
    IF run.pc = "cross" /\ run.attempts < maxAttempts
       /\ ~correctlyPlaced(state, targetEdges[run.edge])
    THEN Only({ Only({
            IF pos # Null /\ (pos.face1 = "D" \/ pos.face2 = "D")
            THEN Only({ [inD |-> TRUE,
                         moves |-> MovesOf(down.cube),
                         relookup |-> findEdgePiece(down.cube.state,
                                                    targetEdge.color1, targetEdge.color2)]
                        : down \in {DownLayerCase([before |-> state, calls |-> <<>>,
                                                    history |-> history, state |-> state],
                                                   targetEdge, pos)} })
            ELSE [inD |-> FALSE, moves |-> <<>>, relookup |-> Null]
            : pos \in {findEdgePiece(state, targetEdge.color1, targetEdge.color2)} })
         : targetEdge \in {targetEdges[run.edge]} })
    ELSE [inD |-> FALSE, moves |-> <<>>, relookup |-> Null]

\* A position of the findEdgePiece table that has a sticker on the U face.
TouchesU(pos) == pos # Null /\ (pos.face1 = "U" \/ pos.face2 = "U")

\* C31: when an attempt finds its unseated target piece in the D layer, the
\* Down-layer case applies X, U, X' or X, X, and the lookup after these moves
\* returns a position with a sticker on U.
DownLayerLifts ==
    DownLayerAttempt.inD =>
        /\ DownLayerAttempt.moves # <<>>
        /\ TouchesU(DownLayerAttempt.relookup)

\* The attempt that is about to begin on an unseated target piece found in the
\* middle layer, both stickers on side faces: how the iteration ends and the
\* lookup on the cube it leaves.
MiddleLayerAttempt ==
    IF run.pc = "cross" /\ run.attempts < maxAttempts
       /\ ~correctlyPlaced(state, targetEdges[run.edge])
    THEN Only({ Only({
            IF pos # Null /\ pos.face1 \in SideFaces /\ pos.face2 \in SideFaces
            THEN Only({ [inMiddle |-> TRUE,
                         outcome |-> it.outcome,
                         moves |-> MovesOf(it.cube),
                         lookup |-> findEdgePiece(it.cube.state,
                                                  targetEdge.color1, targetEdge.color2)]
                        : it \in {WhiteCrossIteration([before |-> state, calls |-> <<>>,
                                                        history |-> history, state |-> state],
                                                       targetEdge, run.attempts)} })
            ELSE [inMiddle |-> FALSE, outcome |-> "none", moves |-> <<>>, lookup |-> Null]
            : pos \in {findEdgePiece(state, targetEdge.color1, targetEdge.color2)} })
         : targetEdge \in {targetEdges[run.edge]} })
    ELSE [inMiddle |-> FALSE, outcome |-> "none", moves |-> <<>>, lookup |-> Null]

\* C32: an attempt that finds its target piece in the middle layer ends without
\* an exception, and the piece is then at a position with a sticker on U.
MiddleLayerKicks ==
    MiddleLayerAttempt.inMiddle =>
        /\ MiddleLayerAttempt.outcome # "thrown"
        /\ TouchesU(MiddleLayerAttempt.lookup)

\* The move lists of the steps, concatenated in the order of the steps.
RECURSIVE Narrated(_)
Narrated(steps) ==
    IF steps = <<>> THEN <<>> ELSE Head(steps).moves \o Narrated(Tail(steps))

\* C33: when solveCube has returned on a cube that was not solved, the move
\* lists of its steps, concatenated, are valid symbols, are the history of the
\* cube, and replayed on the clone of the cube taken at the start give the
\* stickers of the cube.
NarratedTraceFaithful ==
    (run.pc = "returned" /\ ~isSolved(twin.state)) =>
        \A narrated \in {Narrated(run.steps)} :
            /\ \A i \in 1..Len(narrated) : narrated[i] \in Moves
            /\ narrated = history
            /\ state = Replay(twin.state, narrated)

\* A solve that made moves has returned.
NarratedTraceFaithfulWitness ==
    /\ run.pc = "returned"
    /\ ~isSolved(twin.state)
    /\ Len(Narrated(run.steps)) >= 4
    /\ Narrated(run.steps) = history

\* ---------------------------------------------------------------------------
\* The RubiksCube class whose text is appended to index.html.

\* newFace[i] = face[...] of the appended class, per direction.
RotateSourceAppended(clockwise) ==
    IF clockwise
    THEN (0 :> 6) @@ (1 :> 3) @@ (2 :> 0) @@ (3 :> 7) @@ (4 :> 4)
         @@ (5 :> 1) @@ (6 :> 8) @@ (7 :> 5) @@ (8 :> 2)
    ELSE (0 :> 2) @@ (1 :> 5) @@ (2 :> 8) @@ (3 :> 1) @@ (4 :> 4)
         @@ (5 :> 7) @@ (6 :> 0) @@ (7 :> 3) @@ (8 :> 6)

_rotateFaceAppended(s, faceKey, clockwise) ==
    LET face == s[faceKey]
        from == RotateSourceAppended(clockwise)
        newFace == (0 :> face[from[0]]) @@ (1 :> face[from[1]]) @@ (2 :> face[from[2]])
                   @@ (3 :> face[from[3]]) @@ (4 :> face[from[4]]) @@ (5 :> face[from[5]])
                   @@ (6 :> face[from[6]]) @@ (7 :> face[from[7]]) @@ (8 :> face[from[8]])
    IN  [s EXCEPT ![faceKey] = newFace]

\* _shiftEdges of the appended class: one firstSliceLength for both directions.
_shiftEdgesAppended(theState, edges, clockwise) ==
    Only({Only({Only({WriteBack(s, places, shifted)
        : shifted \in {LET n == Len(temp)
                           firstSliceLength == Len(edges[1].indices)
                       IN  IF clockwise
                           THEN SubSeq(temp, n - firstSliceLength + 1, n)
                                \o SubSeq(temp, 1, n - firstSliceLength)
                           ELSE SubSeq(temp, firstSliceLength + 1, n)
                                \o SubSeq(temp, 1, firstSliceLength)}})
        : temp \in {[k \in 1..Len(places) |-> s[places[k].face][places[k].index]]}})
        : s \in {theState}, places \in {EdgePlaces(edges)}})

\* The edges lists of _U .. _B of the appended class.
EdgesOfAppended(faceKey) ==
    CASE faceKey = "U" -> << [face |-> "F", indices |-> <<0, 1, 2>>],
                             [face |-> "R", indices |-> <<0, 1, 2>>],
                             [face |-> "B", indices |-> <<0, 1, 2>>],
                             [face |-> "L", indices |-> <<0, 1, 2>>] >>
      [] faceKey = "D" -> << [face |-> "F", indices |-> <<6, 7, 8>>],
                             [face |-> "L", indices |-> <<6, 7, 8>>],
                             [face |-> "B", indices |-> <<6, 7, 8>>],
                             [face |-> "R", indices |-> <<6, 7, 8>>] >>
      [] faceKey = "L" -> << [face |-> "U", indices |-> <<0, 3, 6>>],
                             [face |-> "B", indices |-> <<8, 5, 2>>],
                             [face |-> "D", indices |-> <<0, 3, 6>>],
                             [face |-> "F", indices |-> <<0, 3, 6>>] >>
      [] faceKey = "R" -> << [face |-> "U", indices |-> <<2, 5, 8>>],
                             [face |-> "F", indices |-> <<2, 5, 8>>],
                             [face |-> "D", indices |-> <<2, 5, 8>>],
                             [face |-> "B", indices |-> <<6, 3, 0>>] >>
      [] faceKey = "F" -> << [face |-> "U", indices |-> <<6, 7, 8>>],
                             [face |-> "R", indices |-> <<0, 3, 6>>],
                             [face |-> "D", indices |-> <<0, 1, 2>>],
                             [face |-> "L", indices |-> <<2, 5, 8>>] >>
      [] faceKey = "B" -> << [face |-> "U", indices |-> <<0, 1, 2>>],
                             [face |-> "L", indices |-> <<0, 3, 6>>],
                             [face |-> "D", indices |-> <<6, 7, 8>>],
                             [face |-> "R", indices |-> <<2, 5, 8>>] >>

\* _U .. _B of the appended class: the face, then its band.
TurnAppended(s, faceKey, clockwise) ==
    _shiftEdgesAppended(_rotateFaceAppended(s, faceKey, clockwise),
                        EdgesOfAppended(faceKey), clockwise)

\* The switch of manualRotate of the appended class.
RotateSwitchAppended(s, move) ==
    CASE move = "U" -> TurnAppended(s, "U", TRUE)
      [] move = "U_PRIME" -> TurnAppended(s, "U", FALSE)
      [] move = "D" -> TurnAppended(s, "D", TRUE)
      [] move = "D_PRIME" -> TurnAppended(s, "D", FALSE)
      [] move = "L" -> TurnAppended(s, "L", TRUE)
      [] move = "L_PRIME" -> TurnAppended(s, "L", FALSE)
      [] move = "R" -> TurnAppended(s, "R", TRUE)
      [] move = "R_PRIME" -> TurnAppended(s, "R", FALSE)
      [] move = "F" -> TurnAppended(s, "F", TRUE)
      [] move = "F_PRIME" -> TurnAppended(s, "F", FALSE)
      [] move = "B" -> TurnAppended(s, "B", TRUE)
      [] move = "B_PRIME" -> TurnAppended(s, "B", FALSE)
      [] OTHER -> s

\* C34: a move symbol applied to one state by the class of rubiksCube.js and by
\* the class appended to index.html gives the same 54 stickers; stated of the
\* latest manualRotate call, from the stickers it started with.
BothClassesAgree ==
    lastCall \in Moves => RotateSwitchAppended(prevState, lastCall) = state

\* C35: _rotateFace(X, true) sets new[0..8] = old[6,3,0,7,4,1,8,5,2], touches
\* no face but X, and _rotateFace(X, false) is the inverse permutation: for the
\* turn just made (the face of the latest move, from the stickers the call
\* started with), and for both directions applied to every face of the
\* current stickers and of a face whose nine stickers are all different.
RotateFacePermutation ==
    LET old == <<6, 3, 0, 7, 4, 1, 8, 5, 2>>
        numbered == (0 :> "0") @@ (1 :> "1") @@ (2 :> "2") @@ (3 :> "3") @@ (4 :> "4")
                    @@ (5 :> "5") @@ (6 :> "6") @@ (7 :> "7") @@ (8 :> "8")
    IN  /\ lastCall \in Faces =>
               \A i \in 0..8 : state[lastCall][i] = prevState[lastCall][old[i + 1]]
        /\ (lastCall \in Moves \ Faces) =>
               \A i \in 0..8 : state[FaceOf(lastCall)][old[i + 1]] = prevState[FaceOf(lastCall)][i]
        /\ \A X \in Faces :
               \A s \in {state, [state EXCEPT ![X] = numbered]} :
                   \A cw \in {_rotateFace(s, X, TRUE)}, ccw \in {_rotateFace(s, X, FALSE)} :
                       /\ \A i \in 0..8 : cw[X][i] = s[X][old[i + 1]]
                       /\ \A i \in 0..8 : ccw[X][old[i + 1]] = s[X][i]
                       /\ \A f \in Faces \ {X} : cw[f] = s[f] /\ ccw[f] = s[f]
                       /\ _rotateFace(cw, X, FALSE) = s
                       /\ _rotateFace(ccw, X, TRUE) = s

\* A counter-clockwise turn of a face that carried more than one colour, and
\* whose stickers the turn has rearranged.
RotateFacePermutationWitness ==
    /\ lastCall \in Moves \ Faces
    /\ \E i, j \in 0..8 : prevState[FaceOf(lastCall)][i] # prevState[FaceOf(lastCall)][j]
    /\ state[FaceOf(lastCall)] # prevState[FaceOf(lastCall)]

\* C36: _shiftEdges(groups, true) writes into each of the four 3-sticker
\* groups the stickers of the previous group of the list, position by
\* position (the first receiving the last's), _shiftEdges(groups, false) those
\* of the next group, and no sticker outside the 12 listed places changes: for
\* the band of the turn just made, and for both directions applied with each
\* of the six lists to the current stickers and to 54 different stickers.
ShiftEdgesCycle ==
    LET previous(k) == IF k = 1 THEN 4 ELSE k - 1
        following(k) == IF k = 4 THEN 1 ELSE k + 1
        at(s, groups, k, j) == s[groups[k].face][groups[k].indices[j]]
        listed(groups, f, i) ==
            \E k \in 1..4, j \in 1..3 : groups[k].face = f /\ groups[k].indices[j] = i
        row(f) == (0 :> <<f, 0>>) @@ (1 :> <<f, 1>>) @@ (2 :> <<f, 2>>)
                  @@ (3 :> <<f, 3>>) @@ (4 :> <<f, 4>>) @@ (5 :> <<f, 5>>)
                  @@ (6 :> <<f, 6>>) @@ (7 :> <<f, 7>>) @@ (8 :> <<f, 8>>)
        numbered == ("U" :> row("U")) @@ ("D" :> row("D")) @@ ("L" :> row("L"))
                    @@ ("R" :> row("R")) @@ ("F" :> row("F")) @@ ("B" :> row("B"))
    IN  /\ lastCall \in Faces =>
               \A groups \in {EdgesOf(lastCall)} : \A k \in 1..4, j \in 1..3 :
                   at(state, groups, k, j) = at(prevState, groups, previous(k), j)
        /\ (lastCall \in Moves \ Faces) =>
               \A groups \in {EdgesOf(FaceOf(lastCall))} : \A k \in 1..4, j \in 1..3 :
                   at(state, groups, k, j) = at(prevState, groups, following(k), j)
        /\ \A X \in Faces : \A groups \in {EdgesOf(X)} :
               \A s \in {state, numbered} :
                   \A cw \in {_shiftEdges(s, groups, TRUE)},
                      ccw \in {_shiftEdges(s, groups, FALSE)} :
                       /\ \A k \in 1..4, j \in 1..3 :
                              /\ at(cw, groups, k, j) = at(s, groups, previous(k), j)
                              /\ at(ccw, groups, k, j) = at(s, groups, following(k), j)
                       /\ \A f \in Faces, i \in 0..8 :
                              ~listed(groups, f, i) =>
                                  cw[f][i] = s[f][i] /\ ccw[f][i] = s[f][i]

\* A counter-clockwise turn that has changed a sticker of its band.
ShiftEdgesCycleWitness ==
    /\ lastCall \in Moves \ Faces
    /\ \E k \in 1..4, j \in 1..3 :
           \A group \in {EdgesOf(FaceOf(lastCall))[k]} :
               state[group.face][group.indices[j]] # prevState[group.face][group.indices[j]]

\* C37: each phase after the white cross (solveWhiteCorners ..
\* permuteLastLayerEdges) emits one step, with an empty move list, and leaves
\* the 54 stickers and cube.history as they were; after the last phase
\* solveCube adds its own closing step when the cube is not solved.
PlaceholderPhasesInert ==
    [][(run.pc = "phase" /\ run' # run) =>
           /\ state' = state
           /\ history' = history
           /\ Len(run'.steps) =
                  Len(run.steps) + (IF run.phase = 7 /\ ~isSolved(state) THEN 2 ELSE 1)
           /\ SubSeq(run'.steps, 1, Len(run.steps)) = run.steps
           /\ run'.steps[Len(run.steps) + 1] =
                  SolutionStep(placeholderPhases[run.phase].step, <<>>, "info", "")
           /\ run'.snapshots[Len(run.steps) + 1] = state]_vars

\* The seven phases have run on a cube that is not solved, after a recorded
\* click: the six placeholder steps are in the list.
PlaceholderPhasesInertWitness ==
    /\ run.pc = "returned"
    /\ run.status = incompleteStatus
    /\ ~isSolved(state)
    /\ Len(run.steps) >= 8
    /\ \A phase \in 2..7 :
           run.steps[Len(run.steps) - 8 + phase].description = placeholderPhases[phase].step

\* C38: every solve started by the solve button eventually ends with
\* isSolving false and the scramble, solve and move buttons enabled again,
\* whether solveCube returns or throws, given that the timers of the display
\* fire.
InProgressFlagReleased ==
    run.isSolving ~> (/\ ~run.isSolving
                      /\ ~run.buttons.scrambleButton
                      /\ ~run.buttons.solveButton
                      /\ ~run.buttons.moveButtons)

\* A solve that ended with an exception and has been released.
InProgressFlagReleasedWitness ==
    /\ run.pc = "finished"
    /\ run.outcome = "thrown"
    /\ ~run.isSolving
    /\ run.buttons = toggleButtons(FALSE)

\* C39: a quarter turn of face X, in either direction, changes only stickers
\* of X and the 12 band stickers of its four neighbours (on each neighbour the
\* row or column of three that touches X); the 9 stickers of the face opposite
\* X and the 6 other stickers of each neighbour keep their values: for the
\* turn just made, and for each of the 12 moves applied to the current
\* stickers and to 54 different stickers.
MoveFrame ==
    LET top == {0, 1, 2}
        bottom == {6, 7, 8}
        left == {0, 3, 6}
        right == {2, 5, 8}
        band(X, f) ==
            CASE f = Opposite(X) -> {}
              [] X = "U" -> top
              [] X = "D" -> bottom
              [] X = "L" -> IF f = "B" THEN right ELSE left
              [] X = "R" -> IF f = "B" THEN left ELSE right
              [] X = "F" -> (CASE f = "U" -> bottom [] f = "R" -> left
                               [] f = "D" -> top [] f = "L" -> right)
              [] X = "B" -> (CASE f = "U" -> top [] f = "L" -> left
                               [] f = "D" -> bottom [] f = "R" -> right)
        kept(old, new, X) ==
            \A f \in Faces \ {X} : \A i \in (0..8) \ band(X, f) : new[f][i] = old[f][i]
        row(f) == (0 :> <<f, 0>>) @@ (1 :> <<f, 1>>) @@ (2 :> <<f, 2>>)
                  @@ (3 :> <<f, 3>>) @@ (4 :> <<f, 4>>) @@ (5 :> <<f, 5>>)
                  @@ (6 :> <<f, 6>>) @@ (7 :> <<f, 7>>) @@ (8 :> <<f, 8>>)
        numbered == ("U" :> row("U")) @@ ("D" :> row("D")) @@ ("L" :> row("L"))
                    @@ ("R" :> row("R")) @@ ("F" :> row("F")) @@ ("B" :> row("B"))
    IN  /\ lastCall \in Moves => kept(prevState, state, FaceOf(lastCall))
        /\ \A move \in Moves : \A s \in {state, numbered} :
               kept(s, RotateSwitch(s, move), FaceOf(move))

\* A clockwise turn of a face whose opposite face carried more than one
\* colour and one of whose neighbours carried a foreign colour off the band.
MoveFrameWitness ==
    /\ lastCall \in Faces
    /\ state # prevState
    /\ \E i \in 0..8 : prevState[Opposite(lastCall)][i] # colors[Opposite(lastCall)]
    /\ \E f \in Faces \ {lastCall, Opposite(lastCall)} : \E i \in 0..8 :
           /\ prevState[f][i] # colors[f]
           /\ state[f][i] = prevState[f][i]
====
